---- MODULE Spec2Model ----
(***************************************************************************)
(* The agent orchestration graph of src/server/src/agent.py: the LangGraph *)
(* state machine identify -> {simple_model, agent}, agent -> {tools,       *)
(* repair, END}, repair -> {tools, agent}, tools -> {agent, END}, with the *)
(* AgentState channels messages (reducer operator.add), classification,    *)
(* retry_count, errors and user_id (last value wins).                      *)
(*                                                                         *)
(* A Python str is a sequence of one-character strings, so that the        *)
(* substring tests, the brace scanner and json.loads work on characters.   *)
(***************************************************************************)
EXTENDS Integers, Sequences, FiniteSets, TLC

----------------------------------------------------------------------------
(* Python str operations *)

RECURSIVE Log2(_)
\* the least k with 2^k >= n.  A while loop of at most n rounds over the loop
\* variables st is run as rounds(st, Log2(n)), where rounds(st, k) makes up
\* to 2^k rounds: none when the loop condition fails, one when k = 0, and
\* otherwise rounds(rounds(st, k - 1), k - 1)
Log2(n) == IF n <= 1 THEN 0 ELSE 1 + Log2((n + 1) \div 2)

\* pat in text
Contains(text, pat) ==
    \E i \in 0..(Len(text) - Len(pat)) : SubSeq(text, i + 1, i + Len(pat)) = pat

\* the least element of hits, or none when there is no element
Least(hits, none) ==
    IF hits = {} THEN none ELSE CHOOSE i \in hits : \A j \in hits : i <= j

\* text.find(ch, cursor): 0-based index of the first ch at or after cursor, or -1
find(text, ch, cursor) ==
    Least({i \in cursor..(Len(text) - 1) : text[i + 1] = ch}, -1)

RECURSIVE Join(_, _)
\* sep.join(seqs)
Join(sep, seqs) ==
    IF seqs = <<>> THEN <<>>
    ELSE IF Len(seqs) = 1 THEN Head(seqs)
    ELSE Head(seqs) \o sep \o Join(sep, Tail(seqs))

UpperOf ==
    [a |-> "A", b |-> "B", c |-> "C", d |-> "D", e |-> "E", f |-> "F", g |-> "G",
     h |-> "H", i |-> "I", j |-> "J", k |-> "K", l |-> "L", m |-> "M", n |-> "N",
     o |-> "O", p |-> "P", q |-> "Q", r |-> "R", s |-> "S", t |-> "T", u |-> "U",
     v |-> "V", w |-> "W", x |-> "X", y |-> "Y", z |-> "Z"]

\* str.upper() and str.lower(), character by character
UpperChar(c) == IF c \in DOMAIN UpperOf THEN UpperOf[c] ELSE c
LowerChar(c) ==
    IF \E k \in DOMAIN UpperOf : UpperOf[k] = c
    THEN CHOOSE k \in DOMAIN UpperOf : UpperOf[k] = c
    ELSE c
Upper(text) == [i \in 1..Len(text) |-> UpperChar(text[i])]
Lower(text) == [i \in 1..Len(text) |-> LowerChar(text[i])]

IsWs(c) == c \in {" ", "\n", "\t", "\r"}
IsDigit(c) == c \in {"0", "1", "2", "3", "4", "5", "6", "7", "8", "9"}

\* str.isdigit(): non-empty and every character a digit
isdigit(text) == text # <<>> /\ \A i \in 1..Len(text) : IsDigit(text[i])

RECURSIVE lstrip(_)
lstrip(text) ==
    IF text # <<>> /\ IsWs(Head(text)) THEN lstrip(Tail(text)) ELSE text
RECURSIVE rstrip(_)
rstrip(text) ==
    IF text # <<>> /\ IsWs(text[Len(text)])
    THEN rstrip(SubSeq(text, 1, Len(text) - 1)) ELSE text
\* str.strip()
strip(text) == rstrip(lstrip(text))

----------------------------------------------------------------------------
(* Python values, as json.loads builds them.  Every value is a record      *)
(* [t, s, kv]: t the type, s the characters of a str (or the lexeme of a   *)
(* number or literal), kv the items of a dict (key k, value v, in          *)
(* insertion order) or of a list (k empty).                                *)

JStr(chars) == [t |-> "str", s |-> chars, kv |-> <<>>]
JNum(lexeme) == [t |-> "num", s |-> lexeme, kv |-> <<>>]
JLit(lexeme) == [t |-> "lit", s |-> lexeme, kv |-> <<>>]
JObj(items) == [t |-> "obj", s |-> <<>>, kv |-> items]
JArr(items) == [t |-> "arr", s |-> <<>>, kv |-> items]
PyNone == JLit(<<"n", "u", "l", "l">>)

dict_has(d, key) == \E i \in 1..Len(d) : d[i].k = key
dict_get(d, key, default) ==
    IF dict_has(d, key)
    THEN d[CHOOSE i \in 1..Len(d) : d[i].k = key].v
    ELSE default
\* d[key] = val : an existing key keeps its position
dict_set(d, key, val) ==
    IF dict_has(d, key)
    THEN [i \in 1..Len(d) |-> IF d[i].k = key THEN [k |-> key, v |-> val] ELSE d[i]]
    ELSE Append(d, [k |-> key, v |-> val])
\* d without key (dict.pop drops the entry)
dict_pop(d, key) == SelectSeq(d, LAMBDA e : e.k # key)

----------------------------------------------------------------------------
(* json.loads (CPython json.decoder / json.scanner, strict mode), for      *)
(* texts without \u escapes.  Positions are 1-based; a parse step returns  *)
(* [ok, v, p] with p the position after what it read.                      *)

Fail == [ok |-> FALSE, v |-> PyNone, p |-> 0]

RECURSIVE skip_ws(_, _)
skip_ws(s, p) == IF p <= Len(s) /\ IsWs(s[p]) THEN skip_ws(s, p + 1) ELSE p

RECURSIVE digits_end(_, _)
digits_end(s, p) == IF p <= Len(s) /\ IsDigit(s[p]) THEN digits_end(s, p + 1) ELSE p

\* json.decoder.BACKSLASH: the one-character escapes and what they decode to
BACKSLASH ==
    [c \in {"\"", "\\", "/", "b", "f", "n", "r", "t"} |->
        CASE c = "b" -> "<BS>"
          [] c = "f" -> "\f"
          [] c = "n" -> "\n"
          [] c = "r" -> "\r"
          [] c = "t" -> "\t"
          [] OTHER -> c]

\* STRINGCHUNK = (.*?)(["\\\x00-\x1f]) matched at p: the position of the
\* terminator, or 0 when there is no match
STRINGCHUNK(s, p) ==
    Least({i \in p..Len(s) : s[i] \in {"\"", "\\", "\n", "\t", "\r", "\f", "<BS>"}}, 0)

\* py_scanstring, after a chunk that ends with a backslash at e
scanstring_escape(s, st, e) ==
    IF e + 1 <= Len(s) /\ s[e + 1] \in DOMAIN BACKSLASH
    THEN [st EXCEPT !.p = e + 2,
                    !.acc = @ \o SubSeq(s, st.p, e - 1) \o <<BACKSLASH[s[e + 1]]>>]
    ELSE [st EXCEPT !.done = TRUE, !.ok = FALSE]

\* py_scanstring: one round of its loop, a chunk and its terminator;
\* st is [p, acc, done, ok]
scanstring_chunk(s, st, e) ==
    IF e = 0 THEN [st EXCEPT !.done = TRUE, !.ok = FALSE]
    ELSE IF s[e] = "\""
    THEN [st EXCEPT !.done = TRUE, !.ok = TRUE, !.p = e + 1,
                    !.acc = @ \o SubSeq(s, st.p, e - 1)]
    ELSE IF s[e] = "\\" THEN scanstring_escape(s, st, e)
    ELSE [st EXCEPT !.done = TRUE, !.ok = FALSE]
scanstring_step(s, st) == scanstring_chunk(s, st, STRINGCHUNK(s, st.p))

\* py_scanstring: p is the position after the opening quote; every round but
\* the last reads a backslash
scanstring_end(st) == IF st.ok THEN [ok |-> TRUE, v |-> st.acc, p |-> st.p] ELSE Fail
RECURSIVE scanstring_rounds(_, _, _)
\* py_scanstring: up to 2^k rounds of its loop
scanstring_rounds(s, st, k) ==
    CASE st.done -> st
      [] ~st.done /\ k = 0 -> scanstring_step(s, st)
      [] OTHER -> scanstring_rounds(s, scanstring_rounds(s, st, k - 1), k - 1)
scanstring(s, p, acc) ==
    scanstring_end(
        scanstring_rounds(s, [p |-> p, acc |-> acc, done |-> FALSE, ok |-> FALSE],
                          Log2(Cardinality({i \in p..Len(s) : s[i] = "\\"}) + 1)))

\* NUMBER_RE = (-?(?:0|[1-9]\d*))(\.\d+)?([eE][-+]?\d+)? : the position after
\* the match at p, or p when there is none
exponent_digits(s, q2, q3) ==
    IF q3 <= Len(s) /\ IsDigit(s[q3]) THEN digits_end(s, q3) ELSE q2
exponent_end(s, q2) ==
    IF q2 <= Len(s) /\ s[q2] \in {"e", "E"}
    THEN exponent_digits(s, q2,
            IF q2 + 1 <= Len(s) /\ s[q2 + 1] \in {"+", "-"} THEN q2 + 2 ELSE q2 + 1)
    ELSE q2
fraction_end(s, q1) ==
    IF q1 + 1 <= Len(s) /\ s[q1] = "." /\ IsDigit(s[q1 + 1])
    THEN digits_end(s, q1 + 1) ELSE q1
integer_end(s, p, q0) ==
    IF ~(q0 <= Len(s) /\ IsDigit(s[q0])) THEN p
    ELSE exponent_end(s, fraction_end(s,
            IF s[q0] = "0" THEN q0 + 1 ELSE digits_end(s, q0)))
number_end(s, p) == integer_end(s, p, IF p <= Len(s) /\ s[p] = "-" THEN p + 1 ELSE p)

\* int(lexeme) or float(lexeme): the number keeps its lexeme, but for -0
number_value(lexeme) == JNum(IF lexeme = <<"-", "0">> THEN <<"0">> ELSE lexeme)

\* s[p:p+len(word)] == word
StartsAt(s, p, word) ==
    p + Len(word) - 1 <= Len(s) /\ SubSeq(s, p, p + Len(word) - 1) = word

Literals ==
    {<<"n", "u", "l", "l">>, <<"t", "r", "u", "e">>, <<"f", "a", "l", "s", "e">>,
     <<"N", "a", "N">>, <<"I", "n", "f", "i", "n", "i", "t", "y">>,
     <<"-", "I", "n", "f", "i", "n", "i", "t", "y">>}

RECURSIVE scan_once(_, _)
RECURSIVE JSONObject(_, _)
RECURSIVE object_members(_, _, _)
RECURSIVE JSONArray(_, _)
RECURSIVE array_elements(_, _, _)

\* _scan_once: a string, from what py_scanstring returns
scan_string(r) == IF r.ok THEN [ok |-> TRUE, v |-> JStr(r.v), p |-> r.p] ELSE Fail

\* _scan_once: the literal w at p
scan_literal(p, w) == [ok |-> TRUE, v |-> JLit(w), p |-> p + Len(w)]

\* _scan_once: a number that ends before q, or NaN, Infinity, -Infinity
scan_number(s, p, q) ==
    CASE q # p -> [ok |-> TRUE, v |-> number_value(SubSeq(s, p, q - 1)), p |-> q]
      [] q = p /\ (\E w \in Literals : StartsAt(s, p, w)) ->
            scan_literal(p, CHOOSE w \in Literals : StartsAt(s, p, w))
      [] OTHER -> Fail

\* s has the character ch at position p
HasAt(s, p, ch) == p <= Len(s) /\ s[p] = ch

\* py_make_scanner._scan_once
scan_once(s, p) ==
    CASE HasAt(s, p, "\"") -> scan_string(scanstring(s, p + 1, <<>>))
      [] HasAt(s, p, "{") -> JSONObject(s, p + 1)
      [] HasAt(s, p, "[") -> JSONArray(s, p + 1)
      [] p <= Len(s) /\ s[p] \in {"n", "t", "f"}
         /\ (\E w \in Literals : w[1] = s[p] /\ StartsAt(s, p, w)) ->
            scan_literal(p, CHOOSE w \in Literals : w[1] = s[p] /\ StartsAt(s, p, w))
      [] p <= Len(s) /\ s[p] \notin {"\"", "{", "["} -> scan_number(s, p, number_end(s, p))
      [] OTHER -> Fail

\* JSONObject, at the first character q after the opening brace
object_start(s, q) ==
    CASE HasAt(s, q, "}") -> [ok |-> TRUE, v |-> JObj(<<>>), p |-> q + 1]
      [] HasAt(s, q, "\"") -> object_members(s, q + 1, <<>>)
      [] OTHER -> Fail

\* json.decoder.JSONObject: p is the position after the opening brace
JSONObject(s, p) == object_start(s, skip_ws(s, p))

\* after a member's value: the closing brace at e, or a comma and the next key
object_next(s, e, pairs2) ==
    CASE HasAt(s, e, "}") -> [ok |-> TRUE, v |-> JObj(pairs2), p |-> e + 1]
      [] HasAt(s, e, ",") /\ HasAt(s, skip_ws(s, e + 1), "\"") ->
            object_members(s, skip_ws(s, e + 1) + 1, pairs2)
      [] OTHER -> Fail

\* a member's value val
object_value(s, key, val, pairs) ==
    IF ~val.ok THEN Fail
    ELSE object_next(s, skip_ws(s, val.p), dict_set(pairs, key.v, val.v))

\* a member's key, the colon after it, and its value
object_key(s, key, pairs) ==
    IF key.ok /\ HasAt(s, skip_ws(s, key.p), ":")
    THEN object_value(s, key, scan_once(s, skip_ws(s, skip_ws(s, key.p) + 1)), pairs)
    ELSE Fail

\* the while loop of JSONObject: p is the position after a key's opening quote
object_members(s, p, pairs) == object_key(s, scanstring(s, p, <<>>), pairs)

\* JSONArray, at the first character q after the opening bracket
array_start(s, q) ==
    CASE q > Len(s) -> Fail
      [] HasAt(s, q, "]") -> [ok |-> TRUE, v |-> JArr(<<>>), p |-> q + 1]
      [] OTHER -> array_elements(s, q, <<>>)

\* json.decoder.JSONArray: p is the position after the opening bracket
JSONArray(s, p) == array_start(s, skip_ws(s, p))

\* after an element: the closing bracket at e, or a comma and the next element
array_next(s, e, items2) ==
    CASE HasAt(s, e, "]") -> [ok |-> TRUE, v |-> JArr(items2), p |-> e + 1]
      [] HasAt(s, e, ",") -> array_elements(s, skip_ws(s, e + 1), items2)
      [] OTHER -> Fail

\* an element val
array_element(s, val, items) ==
    IF ~val.ok THEN Fail
    ELSE array_next(s, skip_ws(s, val.p), Append(items, [k |-> <<>>, v |-> val.v]))

\* the while loop of JSONArray: p is the position of an element
array_elements(s, p, items) == array_element(s, scan_once(s, p), items)

\* what json.loads makes of the value r it scanned: nothing may follow it
loads_end(s, r) == IF r.ok /\ skip_ws(s, r.p) = Len(s) + 1 THEN r ELSE Fail

\* json.loads(s): one value, white space around it, nothing after it
\* (ok = FALSE is json.JSONDecodeError)
json_loads(s) == loads_end(s, scan_once(s, skip_ws(s, 1)))

----------------------------------------------------------------------------
(* extract_json_from_text, agent.py:33-84.  cursor, start and end are the  *)
(* code's 0-based indices.                                                 *)

\* the str literals of extract_json_from_text, lines 73-76
extract_str ==
    [name_colon |->
        <<"\"","n","a","m","e","\"",":">>,
     arguments |->
        <<"a","r","g","u","m","e","n","t","s">>,
     parameters |->
        <<"p","a","r","a","m","e","t","e","r","s">>]

\* one round of the inner while loop (lines 53-68);
\* st is [end, count, in_string, escape]
match_step(text, st) ==
    IF text[st.end + 1] = "\"" /\ ~st.escape
    THEN [st EXCEPT !.in_string = ~@, !.escape = FALSE, !.end = @ + 1]
    ELSE IF text[st.end + 1] = "\\" /\ ~st.escape
    THEN [st EXCEPT !.escape = TRUE, !.end = @ + 1]
    ELSE IF ~st.in_string
    THEN [st EXCEPT !.count = IF text[st.end + 1] = "{" THEN @ + 1
                              ELSE IF text[st.end + 1] = "}" THEN @ - 1 ELSE @,
                    !.escape = FALSE, !.end = @ + 1]
    ELSE [st EXCEPT !.escape = FALSE, !.end = @ + 1]

RECURSIVE match_rounds(_, _, _)
\* the inner while loop (lines 52-68): up to 2^k rounds
match_rounds(text, st, k) ==
    CASE ~(st.end < Len(text) /\ st.count > 0) -> st
      [] st.end < Len(text) /\ st.count > 0 /\ k = 0 -> match_step(text, st)
      [] OTHER -> match_rounds(text, match_rounds(text, st, k - 1), k - 1)

\* the inner while loop (lines 52-68): the loop variables when it stops; every
\* round reads one character
match_braces(text, end, count, in_string, escape) ==
    match_rounds(text,
                 [end |-> end, count |-> count, in_string |-> in_string,
                  escape |-> escape],
                 Log2(Len(text) - end))

\* lines 75-76: data["parameters"] = data.pop("arguments")
rename_arguments(data) ==
    IF dict_has(data.kv, extract_str.arguments)
    THEN JObj(dict_set(dict_pop(data.kv, extract_str.arguments), extract_str.parameters,
                       dict_get(data.kv, extract_str.arguments, PyNone)))
    ELSE data

\* lines 70-79: what one balanced candidate adds to results
append_loaded(results, r) ==
    IF r.ok THEN Append(results, rename_arguments(r.v)) ELSE results
accept_candidate(results, json_str) ==
    IF Contains(json_str, extract_str.name_colon)
    THEN append_loaded(results, json_loads(json_str))
    ELSE results

\* candidate_end, but after a balanced candidate the scan goes on at the
\* character after its first brace
candidate_end_rescan(text, start, st, m) ==
    IF m.count = 0
    THEN [cursor |-> start + 1,
          results |-> accept_candidate(st.results, SubSeq(text, start + 1, m.end)),
          done |-> st.done]
    ELSE [st EXCEPT !.cursor = start + 1]

\* candidate_end, but a candidate that is not balanced or does not parse ends
\* the scan
candidate_end_abort(text, start, st, m) ==
    IF m.count = 0 /\ json_loads(SubSeq(text, start + 1, m.end)).ok
    THEN [cursor |-> m.end,
          results |-> accept_candidate(st.results, SubSeq(text, start + 1, m.end)),
          done |-> st.done]
    ELSE [st EXCEPT !.done = TRUE]

\* lines 47-82: the candidate that starts at start; st is [cursor, results, done]
candidate_end(text, start, st, m) ==
    IF m.count = 0
    THEN [cursor |-> m.end,
          results |-> accept_candidate(st.results, SubSeq(text, start + 1, m.end)),
          done |-> st.done]
    ELSE [st EXCEPT !.cursor = start + 1]
scan_candidate(text, start, st) ==
    candidate_end(text, start, st, match_braces(text, start + 1, 1, FALSE, FALSE))

\* one round of the outer while loop (lines 43-82); done is its break
scan_from(text, start, st) ==
    IF start = -1 THEN [st EXCEPT !.done = TRUE] ELSE scan_candidate(text, start, st)
scan_step(text, st) == scan_from(text, find(text, "{", st.cursor), st)

RECURSIVE scan_rounds(_, _, _)
\* the outer while loop (lines 42-82): up to 2^k rounds
scan_rounds(text, st, k) ==
    CASE ~(~st.done /\ st.cursor < Len(text)) -> st
      [] ~st.done /\ st.cursor < Len(text) /\ k = 0 -> scan_step(text, st)
      [] OTHER -> scan_rounds(text, scan_rounds(text, st, k - 1), k - 1)

\* the outer while loop (lines 42-82): every round but the last finds a brace
scan_text(text, cursor, results) ==
    scan_rounds(text, [cursor |-> cursor, results |-> results, done |-> FALSE],
                Log2(Cardinality({i \in 1..Len(text) : text[i] = "{"}) + 1)).results

extract_json_from_text(text) == scan_text(text, 0, <<>>)

----------------------------------------------------------------------------
(* String literals of agent.py, of the tool servers, and the texts the     *)
(* model emits in this development.                                        *)

\* the str literals of identify_intent, line 105
identify_str ==
    [COMPLEX |->
        <<"C","O","M","P","L","E","X">>,
     I_CANNOT |->
        <<"I"," ","C","A","N","N","O","T">>]

\* the pieces of the f-string of call_model, lines 183-187
call_model_str ==
    [override_1 |->
        <<"S","Y","S","T","E","M","_","O","V","E","R","R","I","D","E",":"," ","Y","o","u","r"," ","p","r","e","v","i","o","u","s"," ","a","t","t","e","m","p","t"," ","f","a","i","l","e","d",".","\n","E","r","r","o","r",":"," ">>,
     override_2 |->
        <<"\n","I","N","S","T","R","U","C","T","I","O","N",":"," ","R","e","v","i","e","w"," ","t","h","e"," ","e","r","r","o","r","."," ","I","f"," ","y","o","u"," ","n","e","e","d"," ","a","n"," ","I","D",","," ","l","o","o","k"," ","a","t"," ","t","h","e"," ","e","x","i","s","t","i","n","g"," ","T","o","o","l"," ","R","e","s","u","l","t","s"," ","i","n"," ","t","h","e"," ","c","h","a","t"," ","h","i","s","t","o","r","y"," ","i","n","s","t","e","a","d"," ","o","f"," ","g","u","e","s","s","i","n","g",".">>]

\* the str literals and f-string pieces of repair_hallucination, lines 215-263
repair_str ==
    [failed_to_parse |->
        <<"F","a","i","l","e","d"," ","t","o"," ","p","a","r","s","e"," ","J","S","O","N">>,
     wrote_text |->
        <<"S","Y","S","T","E","M"," ","E","R","R","O","R",":"," ","Y","o","u"," ","w","r","o","t","e"," ","t","e","x","t"," ","i","n","s","t","e","a","d"," ","o","f"," ","r","u","n","n","i","n","g"," ","t","h","e"," ","t","o","o","l","."," ","U","s","e"," ","t","h","e"," ","T","o","o","l"," ","I","n","t","e","r","f","a","c","e"," ","(","J","S","O","N",")",".">>,
     system_error |->
        <<"S","Y","S","T","E","M"," ","E","R","R","O","R",":"," ">>,
     semicolon |->
        <<";"," ">>,
     tool_q |->
        <<"T","o","o","l"," ","'">>,
     not_exist_hint |->
        <<"'"," ","d","o","e","s"," ","n","o","t"," ","e","x","i","s","t","."," ","D","i","d"," ","y","o","u"," ","m","e","a","n"," ","'","d","i","s","c","o","r","d","_","g","e","t","_","s","e","r","v","e","r","_","i","n","f","o","'","?">>,
     placeholder_1 |->
        <<"A","r","g","u","m","e","n","t"," ","c","o","n","t","a","i","n","s"," ","a"," ","p","l","a","c","e","h","o","l","d","e","r"," ","(","'">>,
     placeholder_2 |->
        <<"'",")","."," ","S","T","O","P","."," ","C","h","e","c","k"," ","t","h","e"," ","o","u","t","p","u","t"," ","o","f"," ","'","d","i","s","c","o","r","d","_","g","e","t","_","s","e","r","v","e","r","_","i","n","f","o","'"," ","i","n"," ","t","h","e"," ","c","h","a","t"," ","h","i","s","t","o","r","y","."," ","F","i","n","d"," ","t","h","e"," ","N","U","M","E","R","I","C"," ","I","D"," ","(","e",".","g",".",","," ","9","9","8","8","7","7","6","6",")"," ","c","o","r","r","e","s","p","o","n","d","i","n","g"," ","t","o"," ","t","h","e"," ","c","h","a","n","n","e","l"," ","n","a","m","e"," ","a","n","d"," ","u","s","e"," ","t","h","a","t",".">>,
     channel_id |->
        <<"c","h","a","n","n","e","l","_","i","d">>,
     general |->
        <<"g","e","n","e","r","a","l">>,
     id |->
        <<"i","d">>,
     lt |->
        <<"<">>,
     name |->
        <<"n","a","m","e">>,
     parameters |->
        <<"p","a","r","a","m","e","t","e","r","s">>]

\* the str literals and f-string pieces of call_tools, lines 280-306
call_tools_str ==
    [tool_q |->
        <<"T","o","o","l"," ","'">>,
     invalid_routed |->
        <<"I","n","v","a","l","i","d"," ","m","e","s","s","a","g","e"," ","r","o","u","t","e","d"," ","t","o"," ","t","o","o","l","s">>,
     not_exist |->
        <<"'"," ","d","o","e","s"," ","n","o","t"," ","e","x","i","s","t",".">>,
     error_executing |->
        <<"E","r","r","o","r"," ","e","x","e","c","u","t","i","n","g"," ">>,
     colon_space |->
        <<":"," ">>]

\* the str literals of should_continue, line 334
should_continue_str ==
    [name_brace |->
        <<"{","\"","n","a","m","e","\"",":">>,
     arguments_colon |->
        <<"\"","a","r","g","u","m","e","n","t","s","\"",":">>]

\* the str literals of OllamaService (app/agent/agent.py, lines 110-116 and
\* 182-266), and a question, an answer and two leaked tool calls
ask_question_str ==
    [brace |->
        <<"{">>,
     name_colon |->
        <<"\"","n","a","m","e","\"",":">>,
     type_function |->
        <<"\"","t","y","p","e","\"",":","\"","f","u","n","c","t","i","o","n","\"">>,
     function_colon |->
        <<"\"","f","u","n","c","t","i","o","n","\"",":">>,
     parameters_colon |->
        <<"\"","p","a","r","a","m","e","t","e","r","s","\"",":">>,
     arguments_colon |->
        <<"\"","a","r","g","u","m","e","n","t","s","\"",":">>,
     not_sure |->
        <<"I","'","m"," ","n","o","t"," ","s","u","r","e"," ","h","o","w"," ","t","o"," ","r","e","s","p","o","n","d"," ","t","o"," ","t","h","a","t",".">>,
     correction_msg |->
        <<"S","Y","S","T","E","M"," ","E","R","R","O","R",":"," ","Y","o","u"," ","o","u","t","p","u","t","t","e","d"," ","t","h","e"," ","r","a","w"," ","t","o","o","l"," ","c","a","l","l"," ","J","S","O","N"," ","a","s"," ","t","e","x","t"," ","i","n","s","t","e","a","d"," ","o","f"," ","e","x","e","c","u","t","i","n","g"," ","i","t","."," ","D","o"," ","n","o","t"," ","p","r","i","n","t"," ","J","S","O","N","."," ","E","X","E","C","U","T","E"," ","t","h","e"," ","t","o","o","l"," ","f","u","n","c","t","i","o","n"," ","i","n","t","e","r","n","a","l","l","y"," ","a","n","d"," ","r","e","t","u","r","n"," ","t","h","e"," ","n","a","t","u","r","a","l"," ","l","a","n","g","u","a","g","e"," ","r","e","s","u","l","t",".">>,
     search_searxng |->
        <<"s","e","a","r","c","h","_","s","e","a","r","x","n","g">>,
     blocked |->
        <<"B","L","O","C","K","E","D"," ","b","y"," ","s","a","f","e","t","y"," ","g","u","a","r","d","r","a","i","l","s">>,
     sorry |->
        <<"S","o","r","r","y",","," ","I"," ","e","n","c","o","u","n","t","e","r","e","d"," ","a","n"," ","e","r","r","o","r"," ","w","h","i","l","e"," ","p","r","o","c","e","s","s","i","n","g"," ","y","o","u","r"," ","r","e","q","u","e","s","t",".">>,
     trouble |->
        <<"I","'","m"," ","h","a","v","i","n","g"," ","t","r","o","u","b","l","e"," ","c","o","n","n","e","c","t","i","n","g"," ","t","o"," ","m","y"," ","t","o","o","l","s"," ","r","i","g","h","t"," ","n","o","w","."," ","P","l","e","a","s","e"," ","t","r","y"," ","a","g","a","i","n",".">>,
     question |->
        <<"W","h","a","t"," ","i","s"," ","t","h","e"," ","c","a","p","i","t","a","l"," ","o","f"," ","F","r","a","n","c","e","?">>,
     answer |->
        <<"P","a","r","i","s",".">>,
     leaked |->
        <<"{","\"","n","a","m","e","\"",":"," ","\"","s","e","a","r","c","h","_","s","e","a","r","x","n","g","\"",","," ","\"","p","a","r","a","m","e","t","e","r","s","\"",":"," ","{","\"","q","u","e","r","y","\"",":"," ","\"","x","\"","}","}">>,
     leaked_function |->
        <<"I"," ","w","i","l","l"," ","c","a","l","l"," ","\"","f","u","n","c","t","i","o","n","\"",":"," ","s","e","a","r","c","h">>]

\* the str literals and f-string pieces of app/agent/search.py, lines 23-75
\* and 109-111, the requests it sends, answers of the safety model, and the
\* fields of a search result
search_str ==
    [not_configured |->
        <<"S","e","a","r","c","h"," ","i","s"," ","n","o","t"," ","c","o","n","f","i","g","u","r","e","d",";"," ","S","E","A","R","X","N","G","_","U","R","L"," ","i","s"," ","n","o","t"," ","s","e","t",".">>,
     blocked |->
        <<"S","Y","S","T","E","M"," ","A","D","V","I","C","E",":"," ","T","h","e"," ","s","e","a","r","c","h"," ","q","u","e","r","y"," ","w","a","s"," ","B","L","O","C","K","E","D"," ","b","y"," ","s","a","f","e","t","y"," ","g","u","a","r","d","r","a","i","l","s","."," ","D","o"," ","N","O","T"," ","a","t","t","e","m","p","t"," ","t","o"," ","s","e","a","r","c","h"," ","f","o","r"," ","t","h","i","s"," ","t","o","p","i","c"," ","a","g","a","i","n","."," ","Y","o","u"," ","m","u","s","t"," ","n","o","w"," ","r","e","l","y"," ","o","n"," ","i","n","t","e","r","n","a","l"," ","k","n","o","w","l","e","d","g","e"," ","o","n","l","y",".">>,
     SAFE |->
        <<"S","A","F","E">>,
     UNSAFE |->
        <<"U","N","S","A","F","E">>,
     title |->
        <<"T","i","t","l","e",":"," ">>,
     snippet |->
        <<"\n","S","n","i","p","p","e","t",":"," ">>,
     url |->
        <<"\n","U","R","L",":"," ">>,
     sep |->
        <<"\n","\n">>,
     no_title |->
        <<"N","o"," ","T","i","t","l","e">>,
     no_snippet |->
        <<"N","o"," ","s","n","i","p","p","e","t"," ","a","v","a","i","l","a","b","l","e",".">>,
     no_url |->
        <<"N","o"," ","U","R","L">>,
     no_results |->
        <<"N","o"," ","s","e","a","r","c","h"," ","r","e","s","u","l","t","s"," ","f","o","u","n","d",".">>,
     status_1 |->
        <<"S","e","a","r","c","h"," ","r","e","q","u","e","s","t"," ","f","a","i","l","e","d"," ","w","i","t","h"," ","s","t","a","t","u","s"," ">>,
     status_2 |->
        <<".">>,
     connect |->
        <<"S","e","a","r","c","h"," ","f","a","i","l","e","d",":"," ","C","o","u","l","d"," ","n","o","t"," ","c","o","n","n","e","c","t"," ","t","o"," ","S","e","a","r","X","N","G"," ","s","e","r","v","e","r",".">>,
     unexpected |->
        <<"A","n"," ","u","n","e","x","p","e","c","t","e","d"," ","e","r","r","o","r"," ","o","c","c","u","r","r","e","d"," ","d","u","r","i","n","g"," ","t","h","e"," ","s","e","a","r","c","h",".">>,
     post_generate |->
        <<"P","O","S","T"," ","/","a","p","i","/","g","e","n","e","r","a","t","e">>,
     get_search |->
        <<"G","E","T"," ","/","s","e","a","r","c","h">>,
     answer_safe |->
        <<" ","s","a","f","e","\n">>,
     answer_unsafe |->
        <<"U","N","S","A","F","E">>,
     answer_both |->
        <<"S","A","F","E",","," ","n","o","t"," ","U","N","S","A","F","E">>,
     answer_other |->
        <<"I"," ","d","o"," ","n","o","t"," ","k","n","o","w">>,
     status_500 |->
        <<"5","0","0">>,
     k_title |->
        <<"t","i","t","l","e">>,
     k_content |->
        <<"c","o","n","t","e","n","t">>,
     k_url |->
        <<"u","r","l">>,
     t1 |->
        <<"P","a","r","i","s">>,
     c1 |->
        <<"P","a","r","i","s"," ","i","s"," ","t","h","e"," ","c","a","p","i","t","a","l"," ","o","f"," ","F","r","a","n","c","e",".">>,
     u1 |->
        <<"h","t","t","p","s",":","/","/","e","x","a","m","p","l","e",".","o","r","g","/","p","a","r","i","s">>]

\* the str literals and f-string pieces of event_generator, routers/chat.py,
\* lines 33-54
chat_str ==
    [accessing |->
        <<"A","c","c","e","s","s","i","n","g"," ","T","o","o","l",":"," ">>,
     dots |->
        <<".",".",".">>,
     Error |->
        <<"E","r","r","o","r">>,
     DiscordAPIError |->
        <<"D","i","s","c","o","r","d","A","P","I","E","r","r","o","r">>,
     tool_failed |->
        <<"T","o","o","l"," ","F","a","i","l","e","d",":"," ">>,
     tool_result |->
        <<"T","o","o","l"," ","R","e","s","u","l","t",":"," ">>,
     done |->
        <<"[","D","O","N","E","]">>]

\* what discord_send_message returns (mcp/discord_server.py, lines 138-141),
\* for channel 1 and message 1
discord_output ==
    [sent |->
        <<"M","e","s","s","a","g","e"," ","s","e","n","t"," ","s","u","c","c","e","s","s","f","u","l","l","y","!"," ","(","I","D",":"," ","1",")">>,
     channel_not_found |->
        <<"E","r","r","o","r",":"," ","C","h","a","n","n","e","l"," ","1"," ","n","o","t"," ","f","o","u","n","d"," ","o","r"," ","b","o","t"," ","l","a","c","k","s"," ","a","c","c","e","s","s",".">>]

\* texts the agent model emits: a final answer, a tool call in prose, a tool
\* call written as JSON, one for a tool that does not exist, the word
\* "arguments" without an object, a tool call with a space after the brace, and
\* two tool calls written one after the other
Texts ==
    [final |->
        <<"D","o","n","e",".">>,
     prose_json |->
        <<"o","k"," ","{","\"","n","a","m","e","\"",":"," ","\"","w","e","b","_","s","e","a","r","c","h","\"","}">>,
     hallucinated |->
        <<"{","\"","n","a","m","e","\"",":"," ","\"","w","e","b","_","s","e","a","r","c","h","\"",","," ","\"","a","r","g","u","m","e","n","t","s","\"",":"," ","{","\"","q","u","e","r","y","\"",":"," ","\"","x","\"","}","}">>,
     unknown_tool |->
        <<"{","\"","n","a","m","e","\"",":"," ","\"","f","o","o","\"","}">>,
     arguments_only |->
        <<"\"","a","r","g","u","m","e","n","t","s","\"",":"," ","x">>,
     spaced |->
        <<"{"," ","\"","n","a","m","e","\"",":"," ","\"","w","e","b","_","s","e","a","r","c","h","\"","}">>,
     two_calls |->
        <<"{","\"","n","a","m","e","\"",":"," ","\"","w","e","b","_","s","e","a","r","c","h","\"","}"," ","{","\"","n","a","m","e","\"",":"," ","\"","w","e","b","_","s","e","a","r","c","h","\"","}">>]

\* argument names and values of the structured tool calls, the user's prompt
\* and a tool name that is not registered
Words ==
    [query |->
        <<"q","u","e","r","y">>,
     channel_id |->
        <<"c","h","a","n","n","e","l","_","i","d">>,
     x |->
        <<"x">>,
     content |->
        <<"c","o","n","t","e","n","t">>,
     hi |->
        <<"h","i">>,
     one |->
        <<"1">>,
     foo |->
        <<"f","o","o">>]

\* pieces of the JSON the agent model writes as text: the frame of a tool call,
\* tool names, argument containers, surrounding prose, and whole texts
Json ==
    [open_name |->
        <<"{","\"","n","a","m","e","\"",":"," ">>,
     comma |->
        <<","," ","\"">>,
     colon |->
        <<"\"",":"," ">>,
     close |->
        <<"}">>,
     arguments |->
        <<"a","r","g","u","m","e","n","t","s">>,
     parameters |->
        <<"p","a","r","a","m","e","t","e","r","s">>,
     sure |->
        <<"S","u","r","e","!"," ">>,
     done |->
        <<" ","d","o","n","e",".">>,
     stray |->
        <<" ","{">>,
     n_web_search |->
        <<"\"","w","e","b","_","s","e","a","r","c","h","\"">>,
     n_send |->
        <<"\"","d","i","s","c","o","r","d","_","s","e","n","d","_","m","e","s","s","a","g","e","\"">>,
     n_foo |->
        <<"\"","f","o","o","\"">>,
     n_object |->
        <<"{","\"","x","\"",":"," ","1","}">>,
     a_france |->
        <<"{","\"","q","u","e","r","y","\"",":"," ","\"","c","a","p","i","t","a","l"," ","o","f"," ","F","r","a","n","c","e","\"","}">>,
     a_topic |->
        <<"{","\"","q","u","e","r","y","\"",":"," ","\"","<","t","o","p","i","c",">","\"","}">>,
     a_general |->
        <<"{","\"","c","h","a","n","n","e","l","_","i","d","\"",":"," ","\"","g","e","n","e","r","a","l","\"",","," ","\"","c","o","n","t","e","n","t","\"",":"," ","\"","h","i","\"","}">>,
     a_numeric |->
        <<"{","\"","c","h","a","n","n","e","l","_","i","d","\"",":"," ","\"","1","2","3","\"",","," ","\"","c","o","n","t","e","n","t","\"",":"," ","\"","h","i","\"","}">>,
     a_str |->
        <<"\"","g","e","n","e","r","a","l","\"">>,
     a_list |->
        <<"[","1","]">>,
     a_brace |->
        <<"{","\"","q","u","e","r","y","\"",":"," ","\"","a","}","b","\"","}">>,
     spaced_colon |->
        <<"{","\"","n","a","m","e","\""," ",":"," ","\"","w","e","b","_","s","e","a","r","c","h","\"",","," ","\"","a","r","g","u","m","e","n","t","s","\"",":"," ","{","\"","q","u","e","r","y","\"",":"," ","\"","x","\"","}","}">>,
     nested |->
        <<"{","\"","t","o","o","l","\"",":"," ","{","\"","n","a","m","e","\"",":"," ","\"","w","e","b","_","s","e","a","r","c","h","\"",","," ","\"","a","r","g","u","m","e","n","t","s","\"",":"," ","{","\"","q","u","e","r","y","\"",":"," ","\"","x","\"","}","}","}">>,
     unbalanced |->
        <<"{","\"","n","a","m","e","\"",":"," ","\"","w","e","b","_","s","e","a","r","c","h","\"",","," ","\"","a","r","g","u","m","e","n","t","s","\"",":"," ","{","\"","q","u","e","r","y","\"",":"," ","\"","x","\"","}">>,
     not_json |->
        <<"{","\"","n","a","m","e","\"",":"," ","w","e","b","_","s","e","a","r","c","h","}">>,
     a_escaped |->
        <<"{","\"","q","u","e","r","y","\"",":"," ","\"","a","\\","\"","}","b","\"","}">>,
     escaped |->
        <<"{","\\","}"," ","{","\"","n","a","m","e","\"",":"," ","\"","f","o","o","\"","}","}">>,
     skip_unbalanced |->
        <<"{"," ","{","\"","n","a","m","e","\"",":"," ","\"","w","e","b","_","s","e","a","r","c","h","\"","}">>,
     skip_not_json |->
        <<"{","\"","n","a","m","e","\"",":"," ","x","}"," ","{","\"","n","a","m","e","\"",":"," ","\"","w","e","b","_","s","e","a","r","c","h","\"","}">>,
     two_objects |->
        <<"{","\"","n","a","m","e","\"",":"," ","\"","f","o","o","\"","}"," ","{","\"","n","a","m","e","\"",":"," ","\"","w","e","b","_","s","e","a","r","c","h","\"","}">>]


\* the error marker of check_for_success, line 368
S_Error ==
    <<"E","r","r","o","r">>

\* tool names (mcp/search_server.py, mcp/discord_server.py)
web_search ==
    <<"w","e","b","_","s","e","a","r","c","h">>
discord_send_message ==
    <<"d","i","s","c","o","r","d","_","s","e","n","d","_","m","e","s","s","a","g","e">>
discord_get_server_info ==
    <<"d","i","s","c","o","r","d","_","g","e","t","_","s","e","r","v","e","r","_","i","n","f","o">>
discord_list_channels ==
    <<"d","i","s","c","o","r","d","_","l","i","s","t","_","c","h","a","n","n","e","l","s">>

\* what web_search returns for the query x (mcp/search_server.py, line 30)
S_results ==
    <<"N","o"," ","r","e","s","u","l","t","s"," ","f","o","u","n","d"," ","f","o","r"," ","q","u","e","r","y",":"," ","x">>

\* str(e) of the exception of a call that gets no answer
S_timeout ==
    <<"t","i","m","e","o","u","t">>

----------------------------------------------------------------------------
(* str(v) and repr(v) of a Python value *)

\* how repr writes one character of a str
repr_char(c, quote) ==
    CASE c = "\\" -> <<"\\", "\\">>
      [] c = quote -> <<"\\", quote>>
      [] c = "\n" -> <<"\\", "n">>
      [] c = "\t" -> <<"\\", "t">>
      [] c = "\r" -> <<"\\", "r">>
      [] c = "\f" -> <<"\\", "x", "0", "c">>
      [] c = "<BS>" -> <<"\\", "x", "0", "8">>
      [] OTHER -> <<c>>

RECURSIVE repr_rounds(_, _, _, _)
\* the loop of repr over the characters: up to 2^k rounds; st is [i, out]
repr_rounds(chars, quote, st, k) ==
    CASE st.i > Len(chars) -> st
      [] st.i <= Len(chars) /\ k = 0 ->
            [i |-> st.i + 1, out |-> st.out \o repr_char(chars[st.i], quote)]
      [] OTHER -> repr_rounds(chars, quote, repr_rounds(chars, quote, st, k - 1), k - 1)

\* the body of a str's repr: backslash, the quote and control characters escaped
repr_chars(chars, quote) ==
    repr_rounds(chars, quote, [i |-> 1, out |-> <<>>], Log2(Len(chars))).out

\* repr of a str: single quotes, unless it holds a single and no double quote
repr_str(chars) ==
    LET quote == IF Contains(chars, <<"'">>) /\ ~Contains(chars, <<"\"">>)
                 THEN "\"" ELSE "'"
    IN  <<quote>> \o repr_chars(chars, quote) \o <<quote>>

\* repr of a JSON literal and of a number
repr_lit(lexeme) ==
    CASE lexeme = <<"n", "u", "l", "l">> -> <<"N", "o", "n", "e">>
      [] lexeme = <<"t", "r", "u", "e">> -> <<"T", "r", "u", "e">>
      [] lexeme = <<"f", "a", "l", "s", "e">> -> <<"F", "a", "l", "s", "e">>
      [] lexeme = <<"N", "a", "N">> -> <<"n", "a", "n">>
      [] lexeme = <<"I", "n", "f", "i", "n", "i", "t", "y">> -> <<"i", "n", "f">>
      [] OTHER -> <<"-", "i", "n", "f">>
repr_num(lexeme) == lexeme

RECURSIVE py_repr(_)
RECURSIVE repr_items(_, _)
py_repr(v) ==
    CASE v.t = "str" -> repr_str(v.s)
      [] v.t = "num" -> repr_num(v.s)
      [] v.t = "lit" -> repr_lit(v.s)
      [] v.t = "obj" -> <<"{">> \o repr_items(v.kv, TRUE) \o <<"}">>
      [] OTHER -> <<"[">> \o repr_items(v.kv, FALSE) \o <<"]">>
repr_items(items, keyed) ==
    IF items = <<>> THEN <<>>
    ELSE (IF keyed THEN repr_str(Head(items).k) \o <<":", " ">> ELSE <<>>)
         \o py_repr(Head(items).v)
         \o (IF Len(items) > 1 THEN <<",", " ">> ELSE <<>>)
         \o repr_items(Tail(items), keyed)

\* str(v), as an f-string formats it
py_str(v) == IF v.t = "str" THEN v.s ELSE py_repr(v)

----------------------------------------------------------------------------
(* Messages and tool calls (langchain_core.messages) *)

Msg(type, content, tool_calls, name, tool_call_id, status) ==
    [type |-> type, content |-> content, tool_calls |-> tool_calls,
     name |-> name, tool_call_id |-> tool_call_id, status |-> status]
NoId == <<"", 0, 0>>
SystemMessage(content) == Msg("system", content, <<>>, <<>>, NoId, "")
HumanMessage(content) == Msg("human", content, <<>>, <<>>, NoId, "")
AIMessage(content, tool_calls) == Msg("ai", content, tool_calls, <<>>, NoId, "")
ToolMessage(tool_call_id, name, content, status) ==
    Msg("tool", content, <<>>, name, tool_call_id, status)
ToolCall(name, args, id) == [name |-> name, args |-> args, id |-> id]

Last(seq) == seq[Len(seq)]
END == "END"
\* a node raised: the graph run ends with the exception
EXC == "EXC"

----------------------------------------------------------------------------
(* The tool registry (mcp_client.py): _GLOBAL_TOOLS, by the tools' names,   *)
(* and _EXIT_STACK, "None" or the stack of the open sessions                *)

VARIABLES GLOBAL_TOOLS, EXIT_STACK

\* the tools of the configured servers (config/mcp_servers.json): the search
\* server and the Discord server, or the search server alone
Registries ==
    {{web_search, discord_send_message, discord_get_server_info}, {web_search}}

\* initialize_mcp_client, lines 14-79, with servers that answer: the globals
\* after the call, for their values stack and tools before it
initialize_mcp_client(stack, tools) ==
    IF stack # "None"
    THEN [EXIT_STACK |-> stack, GLOBAL_TOOLS |-> tools]
    ELSE [EXIT_STACK |-> "stack",
          GLOBAL_TOOLS |-> {web_search, discord_send_message, discord_get_server_info}]

\* get_mcp_tools, lines 86-88: the globals after the call
lazy_load ==
    IF GLOBAL_TOOLS = {}
    THEN initialize_mcp_client(EXIT_STACK, GLOBAL_TOOLS)
    ELSE [EXIT_STACK |-> EXIT_STACK, GLOBAL_TOOLS |-> GLOBAL_TOOLS]

\* get_mcp_tools, line 90: the tools it returns
get_mcp_tools == lazy_load.GLOBAL_TOOLS

----------------------------------------------------------------------------
(* AgentState and its channels, agent.py:19-24 *)

\* a messages channel without its reducer: the node's value replaces the list
channel_messages_overwrite(old, new) == new
\* messages: Annotated[List[BaseMessage], operator.add]
channel_messages(old, new) == old \o new
\* an errors channel with the reducer operator.add
channel_errors_add(old, new) == old \o new
\* errors: List[str], no reducer: the node's value replaces the old one
channel_errors(old, new) == new
\* retry_count: int
channel_retry_count(old, new) == new
\* classification: str
channel_classification(old, new) == new

\* the state after a node's partial update: a key the node does not return
\* keeps its value
apply_update(state, upd) ==
    [messages |-> IF "messages" \in DOMAIN upd
                  THEN channel_messages(state.messages, upd.messages)
                  ELSE state.messages,
     classification |-> IF "classification" \in DOMAIN upd
                        THEN channel_classification(state.classification, upd.classification)
                        ELSE state.classification,
     retry_count |-> IF "retry_count" \in DOMAIN upd
                     THEN channel_retry_count(state.retry_count, upd.retry_count)
                     ELSE state.retry_count,
     errors |-> IF "errors" \in DOMAIN upd
                THEN channel_errors(state.errors, upd.errors)
                ELSE state.errors,
     user_id |-> state.user_id]

----------------------------------------------------------------------------
(* The nodes and routers of agent.py *)

MAX_RETRIES == 3

\* a router that sends every request to the agent
route_by_complexity_agent(state) == "agent"

\* route_by_complexity, lines 27-30
route_by_complexity(state) ==
    IF state.classification = "SIMPLE" THEN "simple_model" ELSE "agent"

\* a classifier that does not look for the refusal
identify_intent_no_refusal(content) ==
    LET raw_content == Upper(strip(content))
    IN  [classification |->
            IF Contains(raw_content, identify_str.COMPLEX) THEN "COMPLEX" ELSE "SIMPLE"]

\* identify_intent, lines 103-111: content is the classifier model's output
identify_intent(content) ==
    LET raw_content == Upper(strip(content))
    IN  [classification |->
            IF Contains(raw_content, identify_str.COMPLEX) /\ ~Contains(raw_content, identify_str.I_CANNOT)
            THEN "COMPLEX" ELSE "SIMPLE"]

\* simple_model, line 138
simple_model(response) == [messages |-> <<response>>]

\* the system prompt of call_model (lines 160-177), not spelled out
S_system_prompt == <<"<system prompt>">>

\* call_model feeding back the first error instead of the last
call_model_input_first_error(state) ==
    LET current_messages == <<SystemMessage(S_system_prompt)>> \o state.messages
    IN  IF Len(state.errors) > 0
        THEN Append(current_messages,
                    HumanMessage(call_model_str.override_1 \o Head(state.errors) \o call_model_str.override_2))
        ELSE current_messages

\* call_model, lines 179-188: the messages given to the model
call_model_input(state) ==
    LET current_messages == <<SystemMessage(S_system_prompt)>> \o state.messages
    IN  IF Len(state.errors) > 0
        THEN LET last_error == Last(state.errors)
                 mutation_prompt == call_model_str.override_1 \o last_error \o call_model_str.override_2
             IN  Append(current_messages, HumanMessage(mutation_prompt))
        ELSE current_messages

\* call_model, line 196
call_model(response) == [messages |-> <<response>>]

\* lines 238-243: some argument value is a placeholder
has_placeholder(args) ==
    \E i \in 1..Len(args.kv) :
        LET v == args.kv[i].v
        IN  /\ v.t = "str"
            /\ \/ Contains(v.s, repair_str.lt)
               \/ Contains(Lower(v.s), repair_str.id)
               \/ Contains(Lower(v.s), repair_str.general)
            /\ ~isdigit(v.s)

\* line 252: the id f"repair_{i}_{len(state['messages'])}" of the invocation
\* whose id is kept here as <<"repair", i, n_messages>>
repair_id_str(id) ==
    LET digit == <<"0", "1", "2", "3", "4", "5", "6", "7", "8", "9">>
        RECURSIVE str(_)
        str(n) == IF n < 10 THEN <<digit[n + 1]>>
                  ELSE Append(str(n \div 10), digit[(n % 10) + 1])
    IN  <<"r", "e", "p", "a", "i", "r", "_">> \o str(id[2]) \o <<"_">> \o str(id[3])

\* check_arguments, but the id holds the index of the candidate only
check_arguments_index_only(acc, i, name, args, arg_str, n_messages) ==
    IF \/ Contains(Lower(arg_str), repair_str.channel_id)
       \/ Contains(Lower(arg_str), repair_str.general)
    THEN IF args.t # "obj"
         THEN [acc EXCEPT !.raised = TRUE]
         ELSE IF has_placeholder(args)
         THEN [acc EXCEPT !.errors =
                  Append(@, repair_str.placeholder_1 \o arg_str \o repair_str.placeholder_2)]
         ELSE [acc EXCEPT !.tool_calls =
                  Append(@, ToolCall(name, args, <<"repair", i, 0>>))]
    ELSE [acc EXCEPT !.tool_calls =
             Append(@, ToolCall(name, args, <<"repair", i, 0>>))]

\* lines 236-253, for a candidate whose name is a registered tool
check_arguments(acc, i, name, args, arg_str, n_messages) ==
    IF \/ Contains(Lower(arg_str), repair_str.channel_id)
       \/ Contains(Lower(arg_str), repair_str.general)
    THEN IF args.t # "obj"
         THEN \* args.values(): AttributeError
              [acc EXCEPT !.raised = TRUE]
         ELSE IF has_placeholder(args)
         THEN [acc EXCEPT !.errors =
                  Append(@, repair_str.placeholder_1 \o arg_str \o repair_str.placeholder_2)]
         ELSE [acc EXCEPT !.tool_calls =
                  Append(@, ToolCall(name, args, <<"repair", i, n_messages>>))]
    ELSE [acc EXCEPT !.tool_calls =
             Append(@, ToolCall(name, args, <<"repair", i, n_messages>>))]

\* a name check that takes every str for the name of a tool
check_name_unchecked(acc, i, name, args, valid_tool_names, n_messages) ==
    IF name.t \in {"obj", "arr"}
    THEN [acc EXCEPT !.raised = TRUE]
    ELSE IF name.t # "str"
    THEN [acc EXCEPT !.errors =
             Append(@, repair_str.tool_q \o py_str(name) \o repair_str.not_exist_hint)]
    ELSE check_arguments(acc, i, name.s, args, py_str(args), n_messages)

\* lines 227-234: name is data.get("name"), args is data.get("parameters", {})
check_name(acc, i, name, args, valid_tool_names, n_messages) ==
    IF name.t \in {"obj", "arr"}
    THEN \* name not in valid_tool_names: TypeError, unhashable type
         [acc EXCEPT !.raised = TRUE]
    ELSE IF ~(name.t = "str" /\ name.s \in valid_tool_names)
    THEN [acc EXCEPT !.errors =
             Append(@, repair_str.tool_q \o py_str(name) \o repair_str.not_exist_hint)]
    ELSE check_arguments(acc, i, name.s, args, py_str(args), n_messages)

\* one iteration of the for loop of repair_hallucination, lines 226-253;
\* acc is [tool_calls, errors, raised]
repair_candidate(acc, i, data, valid_tool_names, n_messages) ==
    check_name(acc, i, dict_get(data.kv, repair_str.name, PyNone),
               dict_get(data.kv, repair_str.parameters, JObj(<<>>)),
               valid_tool_names, n_messages)

RECURSIVE repair_loop(_, _, _, _, _)
\* the for loop, lines 226-253; i is enumerate's index
repair_loop(acc, i, extracted_data, valid_tool_names, n_messages) ==
    IF acc.raised \/ i >= Len(extracted_data) THEN acc
    ELSE repair_loop(repair_candidate(acc, i, extracted_data[i + 1],
                                      valid_tool_names, n_messages),
                     i + 1, extracted_data, valid_tool_names, n_messages)

\* repair_result, but the errors of the rejected candidates are returned
\* together with the tool-call turn
repair_result_keeps_errors(r) ==
    IF r.raised THEN [raised |-> TRUE, update |-> <<>>]
    ELSE IF r.tool_calls = <<>> /\ r.errors # <<>>
    THEN [raised |-> FALSE,
          update |-> [errors |-> r.errors,
                      messages |-> <<HumanMessage(
                          repair_str.system_error \o Join(repair_str.semicolon, r.errors))>>]]
    ELSE IF \E k \in 1..Len(r.tool_calls) : r.tool_calls[k].args.t # "obj"
    THEN [raised |-> TRUE, update |-> <<>>]
    ELSE [raised |-> FALSE,
          update |-> [errors |-> r.errors,
                      messages |-> <<AIMessage(<<>>, r.tool_calls)>>]]

\* repair_result, but a tool-call turn is made also when every candidate was
\* rejected
repair_result_empty_turn(r) ==
    IF r.raised THEN [raised |-> TRUE, update |-> <<>>]
    ELSE IF \E k \in 1..Len(r.tool_calls) : r.tool_calls[k].args.t # "obj"
    THEN [raised |-> TRUE, update |-> <<>>]
    ELSE [raised |-> FALSE,
          update |-> [messages |-> <<AIMessage(<<>>, r.tool_calls)>>]]

\* lines 255-267: what repair_hallucination returns after the loop
repair_result(r) ==
    IF r.raised THEN [raised |-> TRUE, update |-> <<>>]
    ELSE IF r.tool_calls = <<>> /\ r.errors # <<>>
    THEN [raised |-> FALSE,
          update |-> [errors |-> r.errors,
                      messages |-> <<HumanMessage(
                          repair_str.system_error \o Join(repair_str.semicolon, r.errors))>>]]
    ELSE IF \E k \in 1..Len(r.tool_calls) : r.tool_calls[k].args.t # "obj"
    THEN \* AIMessage(tool_calls=...) rejects args that are no dict
         [raised |-> TRUE, update |-> <<>>]
    ELSE [raised |-> FALSE,
          update |-> [messages |-> <<AIMessage(<<>>, r.tool_calls)>>]]

\* a repair that records no error when it extracted nothing
repair_extracted_no_error(extracted_data, valid_tool_names, n_messages) ==
    IF extracted_data = <<>>
    THEN [raised |-> FALSE,
          update |-> [messages |-> <<HumanMessage(repair_str.wrote_text)>>]]
    ELSE repair_result(
            repair_loop([tool_calls |-> <<>>, errors |-> <<>>, raised |-> FALSE],
                        0, extracted_data, valid_tool_names, n_messages))

\* lines 213-267, for the extracted candidates
repair_extracted(extracted_data, valid_tool_names, n_messages) ==
    IF extracted_data = <<>>
    THEN [raised |-> FALSE,
          update |-> [errors |-> <<repair_str.failed_to_parse>>,
                      messages |-> <<HumanMessage(repair_str.wrote_text)>>]]
    ELSE repair_result(
            repair_loop([tool_calls |-> <<>>, errors |-> <<>>, raised |-> FALSE],
                        0, extracted_data, valid_tool_names, n_messages))

\* repair_hallucination, lines 199-267: [raised, update]
repair_hallucination(state) ==
    repair_extracted(extract_json_from_text(Last(state.messages).content),
                     get_mcp_tools, Len(state.messages))

\* what tool.ainvoke does: it returns an output or raises
Returns(output) == [kind |-> "return", text |-> output]
Raises(e) == [kind |-> "raise", text |-> e]

\* lines 305-316: the except branch
tool_failed(acc, tool_call, error_msg) ==
    [acc EXCEPT !.results = Append(@, ToolMessage(tool_call.id, tool_call.name,
                                                  error_msg, "error")),
                !.errors = Append(@, error_msg)]

\* tool.ainvoke called without the arguments of the call
tool_ainvoke_no_args(acc, tool_call, tool_map) ==
    [acc EXCEPT !.invoked = Append(@, [tool |-> CHOOSE t \in tool_map : t = tool_call.name,
                                       args |-> JObj(<<>>)])]

\* line 296: tool.ainvoke(tool_call["args"]) is called, tool the entry of
\* tool_map for the name
tool_ainvoke(acc, tool_call, tool_map) ==
    [acc EXCEPT !.invoked = Append(@, [tool |-> CHOOSE t \in tool_map : t = tool_call.name,
                                       args |-> tool_call.args])]

\* an executor that passes over an invocation whose name is not registered
execute_tool_call_skip_unknown(acc, tool_call, outcome, tool_map) ==
    IF tool_call.name \notin tool_map THEN acc
    ELSE IF outcome.kind = "raise"
    THEN tool_failed(tool_ainvoke(acc, tool_call, tool_map), tool_call,
                     call_tools_str.error_executing \o tool_call.name \o call_tools_str.colon_space
                     \o outcome.text)
    ELSE [tool_ainvoke(acc, tool_call, tool_map)
             EXCEPT !.results = Append(@, ToolMessage(tool_call.id, tool_call.name,
                                                      outcome.text, "success"))]

\* one iteration of the for loop of call_tools, lines 286-316;
\* acc is [results, errors, invoked], invoked the calls of ainvoke so far
execute_tool_call(acc, tool_call, outcome, tool_map) ==
    IF tool_call.name \notin tool_map
    THEN tool_failed(acc, tool_call,
                     call_tools_str.error_executing \o tool_call.name \o call_tools_str.colon_space
                     \o call_tools_str.tool_q \o tool_call.name \o call_tools_str.not_exist)
    ELSE IF outcome.kind = "raise"
    THEN tool_failed(tool_ainvoke(acc, tool_call, tool_map), tool_call,
                     call_tools_str.error_executing \o tool_call.name \o call_tools_str.colon_space
                     \o outcome.text)
    ELSE [tool_ainvoke(acc, tool_call, tool_map)
             EXCEPT !.results = Append(@, ToolMessage(tool_call.id, tool_call.name,
                                                      outcome.text, "success"))]

RECURSIVE tools_loop_abort(_, _, _, _, _)
\* a for loop that ends the round at the first failed invocation
tools_loop_abort(acc, k, tool_calls, outcomes, tool_map) ==
    IF k > Len(tool_calls) \/ acc.errors # <<>> THEN acc
    ELSE tools_loop_abort(execute_tool_call(acc, tool_calls[k], outcomes[k], tool_map),
                          k + 1, tool_calls, outcomes, tool_map)

RECURSIVE tools_loop(_, _, _, _, _)
\* the for loop, lines 286-316
tools_loop(acc, k, tool_calls, outcomes, tool_map) ==
    IF k > Len(tool_calls) THEN acc
    ELSE tools_loop(execute_tool_call(acc, tool_calls[k], outcomes[k], tool_map),
                    k + 1, tool_calls, outcomes, tool_map)

\* call_tools counting one retry for each failed invocation
tools_result_per_failure(state, r) ==
    [messages |-> r.results,
     errors |-> r.errors,
     retry_count |-> state.retry_count + Len(r.errors)]

\* call_tools classifying the request again
tools_result_reclassify(state, r) ==
    [messages |-> r.results,
     errors |-> r.errors,
     retry_count |-> state.retry_count + (IF r.errors # <<>> THEN 1 ELSE 0),
     classification |-> "SIMPLE"]

\* tools_result without the results of the invocations
tools_result_no_messages(state, r) ==
    [errors |-> r.errors,
     retry_count |-> state.retry_count + (IF r.errors # <<>> THEN 1 ELSE 0)]

\* lines 318-322: what call_tools returns after the loop
tools_result(state, r) ==
    [messages |-> r.results,
     errors |-> r.errors,
     retry_count |-> state.retry_count + (IF r.errors # <<>> THEN 1 ELSE 0)]

\* lines 282-316: the round over the tool calls of the last message
run_tool_calls(state, outcomes) ==
    IF Last(state.messages).type # "ai" THEN [results |-> <<>>, errors |-> <<>>, invoked |-> <<>>]
    ELSE tools_loop([results |-> <<>>, errors |-> <<>>, invoked |-> <<>>], 1,
                    Last(state.messages).tool_calls, outcomes, get_mcp_tools)

\* call_tools, lines 270-322; outcomes[k] is what the k-th invocation does
call_tools(state, outcomes) ==
    IF Last(state.messages).type # "ai" \/ Last(state.messages).tool_calls = <<>>
    THEN [errors |-> <<call_tools_str.invalid_routed>>]
    ELSE tools_result(state, run_tool_calls(state, outcomes))

\* should_continue testing the text before the structured tool calls
should_continue_text_first(state) ==
    LET last_message == Last(state.messages)
        content == last_message.content
    IN  IF Contains(content, should_continue_str.name_brace) \/ Contains(content, should_continue_str.arguments_colon)
        THEN "repair"
        ELSE IF last_message.tool_calls # <<>> THEN "tools"
        ELSE END

\* should_continue, lines 325-339
should_continue(state) ==
    LET last_message == Last(state.messages)
        content == last_message.content
    IN  IF last_message.tool_calls # <<>> THEN "tools"
        ELSE IF Contains(content, should_continue_str.name_brace) \/ Contains(content, should_continue_str.arguments_colon)
        THEN "repair"
        ELSE END

\* route_after_repair giving up after a repair without a valid invocation
route_after_repair_end(state) ==
    LET last_message == Last(state.messages)
    IN  IF last_message.type = "ai" /\ last_message.tool_calls # <<>>
        THEN "tools" ELSE END

\* route_after_repair, lines 342-351
route_after_repair(state) ==
    LET last_message == Last(state.messages)
    IN  IF last_message.type = "ai" /\ last_message.tool_calls # <<>>
        THEN "tools" ELSE "agent"

\* check_for_success allowing one retry more (<= for <)
check_for_success_off_by_one(state) ==
    LET last_message == Last(state.messages)
    IN  IF /\ state.messages # <<>>
           /\ last_message.type = "tool"
           /\ last_message.name = discord_send_message
           /\ ~Contains(last_message.content, S_Error)
        THEN END
        ELSE IF Len(state.errors) > 0
        THEN IF state.retry_count <= MAX_RETRIES THEN "agent" ELSE END
        ELSE "agent"

\* check_for_success testing the errors before the terminal action
check_for_success_errors_first(state) ==
    LET last_message == Last(state.messages)
    IN  IF Len(state.errors) > 0
        THEN IF state.retry_count < MAX_RETRIES THEN "agent" ELSE END
        ELSE IF /\ state.messages # <<>>
                /\ last_message.type = "tool"
                /\ last_message.name = discord_send_message
                /\ ~Contains(last_message.content, S_Error)
        THEN END
        ELSE "agent"

\* check_for_success, lines 354-372
check_for_success(state) ==
    LET last_message == Last(state.messages)
    IN  IF /\ state.messages # <<>>
           /\ last_message.type = "tool"
           /\ last_message.name = discord_send_message
           /\ ~Contains(last_message.content, S_Error)
        THEN END
        ELSE IF Len(state.errors) > 0
        THEN IF state.retry_count < MAX_RETRIES THEN "agent" ELSE END
        ELSE "agent"

----------------------------------------------------------------------------
(* What event_generator (routers/chat.py:27-54) yields to the user for the  *)
(* events of the run                                                        *)

\* lines 48-52, on_chat_model_stream: the content of a model's answer, when
\* it is not empty, as token events; the chunks are taken together
stream_tokens(content) ==
    IF content # <<>> THEN <<[type |-> "token", content |-> content]>> ELSE <<>>

RECURSIVE stream_tool_events(_, _, _, _)
\* lines 32-46, for the invocations of a TOOLS step from the k-th on:
\* on_tool_start for a tool that is invoked, and on_tool_end when it returns
stream_tool_events(k, tool_calls, outcomes, tool_map) ==
    IF k > Len(tool_calls) THEN <<>>
    ELSE LET output == outcomes[k].text
             preview == SubSeq(output, 1, IF Len(output) < 150 THEN Len(output) ELSE 150)
             on_tool_start ==
                 [type |-> "thinking",
                  content |-> chat_str.accessing \o tool_calls[k].name \o chat_str.dots]
             on_tool_end ==
                 IF Contains(output, chat_str.Error) \/ Contains(output, chat_str.DiscordAPIError)
                 THEN [type |-> "error",
                       content |-> chat_str.tool_failed \o preview \o chat_str.dots]
                 ELSE [type |-> "thinking",
                       content |-> chat_str.tool_result \o preview \o chat_str.dots]
         IN  (IF tool_calls[k].name \notin tool_map THEN <<>>
              ELSE IF outcomes[k].kind = "raise" THEN <<on_tool_start>>
              ELSE <<on_tool_start, on_tool_end>>)
             \o stream_tool_events(k + 1, tool_calls, outcomes, tool_map)

\* line 54, after the last event of a run that ended without an exception
stream_done(next) ==
    IF next = END THEN <<[type |-> "done", content |-> chat_str.done]>> ELSE <<>>

----------------------------------------------------------------------------
(* The environment: what the models answer and what the tools do *)

\* the most AGENT steps one request is followed for
MaxAgentCalls == 4

\* outputs of the classifier model (identify_intent, line 99): "complex" and a
\* line end, "SIMPLE", nothing, "i cannot: complex", and "I cannot say if it
\* is COMPLEX"
ClassifierOutputs ==
    {<<"c","o","m","p","l","e","x","\n">>,
     <<"S","I","M","P","L","E">>,
     <<>>,
     <<"i"," ","c","a","n","n","o","t",":"," ","c","o","m","p","l","e","x">>,
     <<"I"," ","c","a","n","n","o","t"," ","s","a","y"," ","i","f"," ","i","t"," ","i","s"," ","C","O","M","P","L","E","X">>}

\* outputs of the direct model (simple_model, line 134): it has no tools
\* bound, and answers or writes a tool call as text
SimpleResponses == {AIMessage(Texts.final, <<>>), AIMessage(Texts.hallucinated, <<>>)}

Args_query == JObj(<<[k |-> Words.query, v |-> JStr(Words.x)]>>)
Args_send ==
    JObj(<<[k |-> Words.channel_id, v |-> JStr(Words.one)], [k |-> Words.content, v |-> JStr(Words.hi)]>>)

\* outputs of the agent model at its n-th call (call_model, line 191): a final
\* answer, tool calls written as text, structured tool calls with and
\* without text, and, at the first call, two tool calls written as text
ModelOutputs(n) ==
    {AIMessage(Texts.final, <<>>),
     AIMessage(Texts.spaced, <<>>),
     AIMessage(Texts.arguments_only, <<>>),
     AIMessage(Texts.unknown_tool, <<>>),
     AIMessage(Texts.hallucinated, <<>>),
     AIMessage(Texts.prose_json, <<ToolCall(web_search, Args_query, <<"call", n, 0>>)>>),
     AIMessage(<<>>, <<ToolCall(Words.foo, Args_query, <<"call", n, 0>>),
                       ToolCall(discord_send_message, Args_send, <<"call", n, 1>>)>>)}
    \cup (IF n = 1 THEN {AIMessage(Texts.two_calls, <<>>)} ELSE {})

\* what an invocation of a tool can do (server/mcp/*.py): the tool's output,
\* which for the Discord tools may be an error text, or an exception
ToolOutcomes(name) ==
    IF name = discord_send_message
    THEN {Returns(discord_output.sent), Returns(discord_output.channel_not_found), Raises(S_timeout)}
    ELSE IF name \in get_mcp_tools
    THEN {Returns(S_results), Raises(S_timeout)}
    ELSE {Returns(<<>>)}

\* one outcome for each invocation of a structured tool-call turn
RoundOutcomes(tool_calls) ==
    {f \in [1..Len(tool_calls) ->
               UNION {ToolOutcomes(tool_calls[k].name) : k \in 1..Len(tool_calls)}] :
        \A k \in 1..Len(tool_calls) : f[k] \in ToolOutcomes(tool_calls[k].name)}

\* a tool call written as JSON text
tool_call_text(name, key, args) ==
    Json.open_name \o name \o Json.comma \o key \o Json.colon \o args \o Json.close

\* texts of the agent model that hold tool calls written as JSON: every name
\* with every argument container under either key, one of them inside prose,
\* and texts whose JSON has an object for a name, is spaced, nested, cut off,
\* not JSON, doubled, followed by a stray brace, holds an escaped brace, or
\* comes after a brace that never closes or after braces that hold no JSON
RepairTexts ==
    LET calls == {tool_call_text(n, k, a) :
                     n \in {Json.n_web_search, Json.n_send, Json.n_foo},
                     k \in {Json.arguments, Json.parameters},
                     a \in {Json.a_france, Json.a_topic, Json.a_general, Json.a_numeric,
                            Json.a_str, Json.a_list, Json.a_brace}}
        web_search_france ==
            tool_call_text(Json.n_web_search, Json.arguments, Json.a_france)
    IN  calls \cup {Json.sure \o web_search_france \o Json.done,
                    web_search_france \o Json.stray,
                    tool_call_text(Json.n_object, Json.arguments, Json.a_france),
                    Json.spaced_colon, Json.nested, Json.unbalanced, Json.not_json,
                    Json.two_objects, Json.escaped, Json.skip_unbalanced,
                    Json.skip_not_json,
                    tool_call_text(Json.n_web_search, Json.arguments, Json.a_escaped)}

\* the most AGENT steps one request is followed for when the agent model
\* draws from RepairOutputs
MaxRepairCalls == 1

\* outputs of the agent model at its n-th call (call_model, line 191): those
\* of ModelOutputs and the texts of RepairTexts
RepairOutputs(n) == ModelOutputs(n) \cup {AIMessage(t, <<>>) : t \in RepairTexts}

----------------------------------------------------------------------------
(* The graph of build_graph, agent.py:375-406, run on the initial state of *)
(* routers/chat.py:20-25                                                   *)

VARIABLES
    pc,              \* the node to run next, END, or EXC
    messages, classification, retry_count, errors, user_id,   \* AgentState
    identify_output, \* what llm.ainvoke did in identify_intent: Returns or Raises
    llm_input,       \* the messages of the latest call of the agent model
    agent_calls,     \* AGENT steps so far
    failed_repairs,  \* REPAIR steps so far that routed back to AGENT
    error_rounds,    \* TOOLS steps so far with a failed invocation
    invoked,         \* the calls of tool.ainvoke of the latest TOOLS step
    sse,             \* what event_generator has yielded to the user
    ask,             \* a call of OllamaService.ask_question, and the chat store
    search,          \* a call of the tool search_searxng of app/agent/search.py
    other,           \* a second request in flight: its state while the first runs
    active,          \* the request whose state pc, messages, ..., sse hold: 1 or 2
    mcp              \* the calls of get_mcp_tools in flight, and the sessions opened

\* the calls of get_mcp_tools that are followed while they are in flight at
\* the same time
MaxCallers == 3

vars == <<pc, messages, classification, retry_count, errors, user_id,
          identify_output, llm_input, agent_calls, failed_repairs, error_rounds,
          invoked, sse, GLOBAL_TOOLS, EXIT_STACK, ask, search, other, active, mcp>>

state ==
    [messages |-> messages, classification |-> classification,
     retry_count |-> retry_count, errors |-> errors, user_id |-> user_id]

\* the channels take the values of new
Commit(new) ==
    /\ messages' = new.messages
    /\ classification' = new.classification
    /\ retry_count' = new.retry_count
    /\ errors' = new.errors
    /\ user_id' = new.user_id

\* the request of send_message, after a startup (main.py:13-20) that loaded
\* the tools or one that failed and left the globals as they were
Init ==
    /\ pc = "identify"
    /\ messages = <<HumanMessage(Words.hi)>>
    /\ classification = ""
    /\ retry_count = 0
    /\ errors = <<>>
    /\ user_id = "u1"
    /\ identify_output = [kind |-> "none", text |-> <<>>]
    /\ llm_input = <<>>
    /\ agent_calls = 0
    /\ failed_repairs = 0
    /\ error_rounds = 0
    /\ invoked = <<>>
    /\ sse = <<>>
    /\ ask = [pc |-> "start", current_tools |-> {}, current_messages |-> <<>>,
              attempt |-> 0, invocations |-> 0, response_text |-> <<>>,
              safe_queries |-> <<>>, unsafe_queries |-> <<>>,
              chats |-> <<>>, log_errors |-> 0,
              result |-> [kind |-> "none", text |-> <<>>]]
    /\ search = [pc |-> "start", SEARXNG_URL |-> FALSE, OLLAMA_BASE_URL |-> FALSE,
                 answer |-> [kind |-> "none", text |-> <<>>],
                 requests |-> <<>>,
                 result |-> [kind |-> "none", text |-> <<>>]]
    /\ other = [pc |-> "identify", messages |-> <<HumanMessage(Words.x)>>,
                classification |-> "", retry_count |-> 0, errors |-> <<>>,
                user_id |-> "u2", identify_output |-> [kind |-> "none", text |-> <<>>],
                llm_input |-> <<>>, agent_calls |-> 0, failed_repairs |-> 0,
                error_rounds |-> 0, invoked |-> <<>>, sse |-> <<>>]
    /\ active = 1
    /\ \E startup \in {initialize_mcp_client("None", {}),
                       [EXIT_STACK |-> "None", GLOBAL_TOOLS |-> {}]} :
          /\ GLOBAL_TOOLS = startup.GLOBAL_TOOLS
          /\ EXIT_STACK = startup.EXIT_STACK
          /\ mcp = [pc |-> [c \in 1..MaxCallers |-> "start"],
                    opened |-> IF startup.EXIT_STACK = "None" THEN 0 ELSE 1,
                    assigned |-> IF startup.EXIT_STACK = "None" THEN 0 ELSE 1]

\* node identify, then route_by_complexity
Identify ==
    /\ pc = "identify"
    /\ \E content \in ClassifierOutputs :
          LET new == apply_update(state, identify_intent(content))
          IN  /\ Commit(new)
              /\ pc' = route_by_complexity(new)
              /\ identify_output' = Returns(content)
              /\ sse' = sse \o stream_tokens(content)
    /\ UNCHANGED <<llm_input, agent_calls, failed_repairs, error_rounds, invoked,
                   GLOBAL_TOOLS, EXIT_STACK>>
    /\ UNCHANGED <<ask, search, other, active, mcp>>

\* a classifier step that answers SIMPLE for a model backend out of reach
IdentifyDefaults ==
    /\ pc = "identify"
    /\ identify_output' = Raises(S_timeout)
    /\ Commit(apply_update(state, [classification |-> "SIMPLE"]))
    /\ pc' = "simple_model"
    /\ UNCHANGED <<llm_input, agent_calls, failed_repairs, error_rounds, invoked,
                   sse, GLOBAL_TOOLS, EXIT_STACK>>
    /\ UNCHANGED <<ask, search, other, active, mcp>>

\* node identify with a model backend that cannot be reached: llm.ainvoke
\* (agent.py:99-101) raises, and so do the node, the run and event_generator
IdentifyRaises ==
    /\ pc = "identify"
    /\ identify_output' = Raises(S_timeout)
    /\ pc' = EXC
    /\ UNCHANGED <<messages, classification, retry_count, errors, user_id,
                   llm_input, agent_calls, failed_repairs,
                   error_rounds, invoked, sse, GLOBAL_TOOLS, EXIT_STACK>>
    /\ UNCHANGED <<ask, search, other, active, mcp>>

\* node simple_model, then END
SimpleModel ==
    /\ pc = "simple_model"
    /\ \E response \in SimpleResponses :
          /\ Commit(apply_update(state, simple_model(response)))
          /\ sse' = sse \o stream_tokens(response.content) \o stream_done(END)
    /\ pc' = END
    /\ UNCHANGED <<identify_output, llm_input, agent_calls, failed_repairs,
                   error_rounds, invoked, GLOBAL_TOOLS, EXIT_STACK>>
    /\ UNCHANGED <<ask, search, other, active, mcp>>

\* node agent (call_model), then should_continue, for a model that answers
\* with one of responses
AgentStep(responses) ==
    /\ pc = "agent"
    /\ \E response \in responses :
          LET new == apply_update(state, call_model(response))
          IN  /\ Commit(new)
              /\ pc' = should_continue(new)
              /\ sse' = sse \o stream_tokens(response.content)
                            \o stream_done(should_continue(new))
    /\ llm_input' = call_model_input(state)
    /\ agent_calls' = agent_calls + 1
    /\ GLOBAL_TOOLS' = lazy_load.GLOBAL_TOOLS
    /\ EXIT_STACK' = lazy_load.EXIT_STACK
    /\ UNCHANGED <<identify_output, failed_repairs, error_rounds, invoked>>
    /\ UNCHANGED <<ask, search, other, active, mcp>>

Agent ==
    /\ agent_calls < MaxAgentCalls
    /\ AgentStep(ModelOutputs(agent_calls + 1))

AgentRepair ==
    /\ agent_calls < MaxRepairCalls
    /\ AgentStep(RepairOutputs(agent_calls + 1))

\* node repair (repair_hallucination), then route_after_repair
Repair ==
    /\ pc = "repair"
    /\ \E r \in {repair_hallucination(state)} :
          IF r.raised
          THEN /\ pc' = EXC
               /\ UNCHANGED <<messages, classification, retry_count, errors,
                              user_id, failed_repairs>>
          ELSE \E new \in {apply_update(state, r.update)} :
                  /\ Commit(new)
                  /\ pc' = route_after_repair(new)
                  /\ failed_repairs' =
                        failed_repairs + (IF route_after_repair(new) = "agent" THEN 1 ELSE 0)
    /\ GLOBAL_TOOLS' = lazy_load.GLOBAL_TOOLS
    /\ EXIT_STACK' = lazy_load.EXIT_STACK
    /\ UNCHANGED <<identify_output, llm_input, agent_calls, error_rounds, invoked, sse>>
    /\ UNCHANGED <<ask, search, other, active, mcp>>

\* node tools (call_tools), then check_for_success
Tools ==
    /\ pc = "tools"
    /\ \E outcomes \in RoundOutcomes(Last(messages).tool_calls) :
          LET upd == call_tools(state, outcomes)
              new == apply_update(state, upd)
              failed == \E k \in 1..Len(outcomes) :
                           \/ outcomes[k].kind = "raise"
                           \/ Last(messages).tool_calls[k].name \notin get_mcp_tools
          IN  /\ Commit(new)
              /\ pc' = check_for_success(new)
              /\ error_rounds' = error_rounds + (IF failed THEN 1 ELSE 0)
              /\ invoked' = run_tool_calls(state, outcomes).invoked
              /\ sse' = sse \o stream_tool_events(1, Last(messages).tool_calls,
                                                  outcomes, get_mcp_tools)
                            \o stream_done(check_for_success(new))
    /\ GLOBAL_TOOLS' = lazy_load.GLOBAL_TOOLS
    /\ EXIT_STACK' = lazy_load.EXIT_STACK
    /\ UNCHANGED <<identify_output, llm_input, agent_calls, failed_repairs>>
    /\ UNCHANGED <<ask, search, other, active, mcp>>

\* the tools are closed and loaded again while the request runs
\* (close_mcp_client, then the lazy load of get_mcp_tools), from a
\* configuration with other servers
ReloadTools ==
    /\ pc \notin {END, EXC}
    /\ GLOBAL_TOOLS # {}
    /\ \E tools \in Registries \ {GLOBAL_TOOLS} : GLOBAL_TOOLS' = tools
    /\ EXIT_STACK' = "stack"
    /\ UNCHANGED <<pc, messages, classification, retry_count, errors, user_id,
                   identify_output, llm_input, agent_calls, failed_repairs,
                   error_rounds, invoked, sse>>
    /\ UNCHANGED <<ask, search, other, active, mcp>>

Next == Identify \/ SimpleModel \/ Agent \/ Repair \/ Tools

Spec == Init /\ [][Next]_vars

\* the graph with an agent model that also writes the texts of RepairTexts,
\* with a classifier model that may be out of reach, and with tools that may
\* be loaded again
RepairNext ==
    Identify \/ IdentifyRaises \/ SimpleModel \/ AgentRepair \/ Repair \/ Tools \/ ReloadTools

RepairSpec == Init /\ [][RepairNext]_vars

----------------------------------------------------------------------------
(* Two requests in flight: send_message (routers/chat.py:17-56) builds a   *)
(* graph and an initial state for each, and the event loop runs a step of  *)
(* the one or of the other; the tool registry is the same for both         *)

\* the most AGENT steps each of two requests in flight is followed for
MaxTwoCalls == 1

\* node agent for a model that gives a final answer, writes a tool call as
\* text, or makes two structured tool calls
AgentTwo ==
    /\ agent_calls < MaxTwoCalls
    /\ AgentStep({m \in ModelOutputs(agent_calls + 1) :
                     m.content \in {Texts.final, Texts.hallucinated, <<>>}})

\* a switch that leaves errors as it is: one list for both requests
SwitchSharedErrors ==
    /\ pc' = other.pc
    /\ messages' = other.messages
    /\ classification' = other.classification
    /\ retry_count' = other.retry_count
    /\ errors' = errors
    /\ user_id' = other.user_id
    /\ identify_output' = other.identify_output
    /\ llm_input' = other.llm_input
    /\ agent_calls' = other.agent_calls
    /\ failed_repairs' = other.failed_repairs
    /\ error_rounds' = other.error_rounds
    /\ invoked' = other.invoked
    /\ sse' = other.sse
    /\ other' = [pc |-> pc, messages |-> messages, classification |-> classification,
                 retry_count |-> retry_count, errors |-> errors, user_id |-> user_id,
                 identify_output |-> identify_output, llm_input |-> llm_input,
                 agent_calls |-> agent_calls, failed_repairs |-> failed_repairs,
                 error_rounds |-> error_rounds, invoked |-> invoked, sse |-> sse]
    /\ active' = 3 - active
    /\ UNCHANGED <<GLOBAL_TOOLS, EXIT_STACK, ask, search, mcp>>

\* the next step is one of the other request: each request has the state
\* that send_message made for it (lines 19-25) and the steps of its own run
Switch ==
    /\ pc' = other.pc
    /\ messages' = other.messages
    /\ classification' = other.classification
    /\ retry_count' = other.retry_count
    /\ errors' = other.errors
    /\ user_id' = other.user_id
    /\ identify_output' = other.identify_output
    /\ llm_input' = other.llm_input
    /\ agent_calls' = other.agent_calls
    /\ failed_repairs' = other.failed_repairs
    /\ error_rounds' = other.error_rounds
    /\ invoked' = other.invoked
    /\ sse' = other.sse
    /\ other' = [pc |-> pc, messages |-> messages, classification |-> classification,
                 retry_count |-> retry_count, errors |-> errors, user_id |-> user_id,
                 identify_output |-> identify_output, llm_input |-> llm_input,
                 agent_calls |-> agent_calls, failed_repairs |-> failed_repairs,
                 error_rounds |-> error_rounds, invoked |-> invoked, sse |-> sse]
    /\ active' = 3 - active
    /\ UNCHANGED <<GLOBAL_TOOLS, EXIT_STACK, ask, search, mcp>>

TwoNext == Identify \/ SimpleModel \/ AgentTwo \/ Repair \/ Tools \/ Switch

TwoSpec == Init /\ [][TwoNext]_vars


----------------------------------------------------------------------------
(* The service of the Discord application: OllamaService.ask_question      *)
(* (app/agent/agent.py) with its chat store, and the search tool of        *)
(* app/agent/search.py                                                     *)

\* a test that takes no text for a leaked tool call
is_malformed_tool_call_never(text) == FALSE

\* _is_malformed_tool_call, lines 104-119
is_malformed_tool_call(text) ==
    LET t == strip(text)
    IN  \/ /\ t # <<>>
           /\ Head(t) = Head(ask_question_str.brace)
           /\ Contains(t, ask_question_str.name_colon)
        \/ Contains(t, ask_question_str.type_function)
        \/ Contains(t, ask_question_str.function_colon)
        \/ Contains(t, ask_question_str.parameters_colon)
        \/ Contains(t, ask_question_str.arguments_colon)

\* ask_question, lines 151-167: check_safety says whether the tools are
\* given to the agent, and the history is read from the store, which may
\* raise
AskStart ==
    /\ ask.pc = "start"
    /\ \E is_safe_query \in BOOLEAN, history \in {"none", "one", "raise"} :
          ask' = IF history = "raise"
                 THEN [ask EXCEPT !.pc = "done", !.result = Raises(S_timeout)]
                 ELSE [ask EXCEPT
                          !.pc = "invoke",
                          !.current_tools =
                              IF is_safe_query THEN {ask_question_str.search_searxng} ELSE {},
                          !.current_messages =
                              (IF history = "one"
                               THEN <<HumanMessage(Words.hi), AIMessage(Words.hi, <<>>)>>
                               ELSE <<>>)
                              \o <<HumanMessage(ask_question_str.question)>>]
    /\ UNCHANGED <<pc, messages, classification, retry_count, errors, user_id,
                   identify_output, llm_input, agent_calls, failed_repairs,
                   error_rounds, invoked, sse, GLOBAL_TOOLS, EXIT_STACK, search,
                   other, active, mcp>>

\* one iteration of the for loop of ask_question, lines 171-225 and 256-266:
\* agent_executor.ainvoke raises, returns no messages, or returns the
\* messages with an answer, with a tool call leaked as text, or, when it has
\* tools, with a search, its result or the advice that it was blocked, and
\* an answer
AskInvoke ==
    /\ ask.pc = "invoke"
    /\ LET id == <<"call", 1, 0>>
           searched(content) ==
               ask.current_messages \o
               <<AIMessage(<<>>, <<ToolCall(ask_question_str.search_searxng, Args_query, id)>>),
                 ToolMessage(id, ask_question_str.search_searxng, content, "success"),
                 AIMessage(ask_question_str.answer, <<>>)>>
           answered(text) == Append(ask.current_messages, AIMessage(text, <<>>))
           runs == {Raises(S_timeout), Returns(<<>>),
                    Returns(answered(ask_question_str.answer)),
                    Returns(answered(ask_question_str.leaked)),
                    Returns(answered(ask_question_str.leaked_function))}
                   \cup (IF ask.current_tools = {} THEN {}
                         ELSE {Returns(searched(S_results)),
                               Returns(searched(search_str.blocked))})
           next_attempt(a) ==
               IF a.attempt + 1 < MAX_RETRIES
               THEN [a EXCEPT !.attempt = @ + 1]
               ELSE [a EXCEPT !.attempt = @ + 1, !.pc = "done",
                              !.result = Returns(ask_question_str.trouble)]
       IN  \E response_data \in runs :
              LET final_messages == response_data.text
                  response_text == Last(final_messages).content
                  calls == UNION {{final_messages[i].tool_calls[j] :
                                      j \in 1..Len(final_messages[i].tool_calls)} :
                                  i \in {i \in 1..Len(final_messages) :
                                            final_messages[i].type = "ai"}}
                  query(c) == dict_get(c.args.kv, Words.query, PyNone)
                  pending_searches ==
                      {c \in calls : /\ c.name = ask_question_str.search_searxng
                                     /\ query(c).t = "str"
                                     /\ query(c).s # <<>>}
                  answers(blocked) ==
                      SelectSeq(final_messages,
                                LAMBDA m : /\ m.type = "tool"
                                           /\ \E c \in pending_searches : c.id = m.tool_call_id
                                           /\ Contains(m.content, ask_question_str.blocked) = blocked)
                  queries(blocked) ==
                      [k \in 1..Len(answers(blocked)) |->
                          query(CHOOSE c \in pending_searches :
                                   c.id = answers(blocked)[k].tool_call_id).s]
                  invoked_once == [ask EXCEPT !.invocations = @ + 1]
              IN  ask' =
                     IF response_data.kind = "raise"
                     THEN IF ask.attempt = MAX_RETRIES - 1
                          THEN [invoked_once EXCEPT !.log_errors = @ + 1, !.attempt = @ + 1,
                                                    !.pc = "done",
                                                    !.result = Returns(ask_question_str.sorry)]
                          ELSE next_attempt([invoked_once EXCEPT !.log_errors = @ + 1])
                     ELSE IF final_messages = <<>>
                     THEN [invoked_once EXCEPT !.pc = "done",
                                               !.result = Returns(ask_question_str.not_sure)]
                     ELSE IF is_malformed_tool_call(response_text)
                     THEN next_attempt(
                             [invoked_once EXCEPT
                                 !.current_messages =
                                     @ \o <<AIMessage(response_text, <<>>),
                                            HumanMessage(ask_question_str.correction_msg)>>])
                     ELSE [invoked_once EXCEPT !.pc = "save",
                                               !.response_text = response_text,
                                               !.safe_queries = queries(FALSE),
                                               !.unsafe_queries = queries(TRUE)]
    /\ UNCHANGED <<pc, messages, classification, retry_count, errors, user_id,
                   identify_output, llm_input, agent_calls, failed_repairs,
                   error_rounds, invoked, sse, GLOBAL_TOOLS, EXIT_STACK, search,
                   other, active, mcp>>

\* an ask_question whose chat log is saved in the try block of the agent's
\* invocation: a failure of the store is an error of the attempt
AskSaveUnguarded ==
    /\ ask.pc = "save"
    /\ \E stored \in BOOLEAN :
          ask' = IF stored
                 THEN [ask EXCEPT !.pc = "done",
                                  !.chats = Append(@, [prompt |-> ask_question_str.question,
                                                       response |-> ask.response_text,
                                                       safe_search_queries |-> ask.safe_queries,
                                                       unsafe_search_queries |-> ask.unsafe_queries]),
                                  !.result = Returns(ask.response_text)]
                 ELSE [ask EXCEPT !.pc = "done", !.log_errors = @ + 1,
                                  !.result = Returns(ask_question_str.sorry)]
    /\ UNCHANGED <<pc, messages, classification, retry_count, errors, user_id,
                   identify_output, llm_input, agent_calls, failed_repairs,
                   error_rounds, invoked, sse, GLOBAL_TOOLS, EXIT_STACK, search,
                   other, active, mcp>>

\* ask_question, lines 226-254: the chat log is saved, or the store raises
\* and the error is logged; the response text is returned
AskSave ==
    /\ ask.pc = "save"
    /\ \E stored \in BOOLEAN :
          ask' = IF stored
                 THEN [ask EXCEPT !.pc = "done",
                                  !.chats = Append(@, [prompt |-> ask_question_str.question,
                                                       response |-> ask.response_text,
                                                       safe_search_queries |-> ask.safe_queries,
                                                       unsafe_search_queries |-> ask.unsafe_queries]),
                                  !.result = Returns(ask.response_text)]
                 ELSE [ask EXCEPT !.pc = "done", !.log_errors = @ + 1,
                                  !.result = Returns(ask.response_text)]
    /\ UNCHANGED <<pc, messages, classification, retry_count, errors, user_id,
                   identify_output, llm_input, agent_calls, failed_repairs,
                   error_rounds, invoked, sse, GLOBAL_TOOLS, EXIT_STACK, search,
                   other, active, mcp>>

\* _check_safety, lines 78-120, for what the POST to the safety model does:
\* [is_safe, requests]
search_check_safety(OLLAMA_BASE_URL, answer) ==
    IF ~OLLAMA_BASE_URL
    THEN [is_safe |-> TRUE, requests |-> <<>>]
    ELSE IF answer.kind = "raise"
    THEN [is_safe |-> FALSE, requests |-> <<search_str.post_generate>>]
    ELSE LET result == Upper(strip(answer.text))
         IN  [is_safe |-> Contains(result, search_str.SAFE)
                          /\ ~Contains(result, search_str.UNSAFE),
              requests |-> <<search_str.post_generate>>]

\* a search tool that sends the query to SearXNG whatever the safety check says
search_searxng_unchecked(SEARXNG_URL, OLLAMA_BASE_URL, answer, found) ==
    IF ~SEARXNG_URL
    THEN [requests |-> <<>>, result |-> Returns(search_str.not_configured)]
    ELSE [requests |-> Append(search_check_safety(OLLAMA_BASE_URL, answer).requests,
                              search_str.get_search),
          result |-> Returns(search_str.no_results)]

\* search_searxng, lines 17-75, for what the safety model and SearXNG do:
\* [requests, result], the requests it sent and what it returns
search_searxng(SEARXNG_URL, OLLAMA_BASE_URL, answer, found) ==
    LET checked == search_check_safety(OLLAMA_BASE_URL, answer)
        items == SubSeq(found.text, 1, IF Len(found.text) < 4 THEN Len(found.text) ELSE 4)
        snippets ==
            [k \in 1..Len(items) |->
                search_str.title \o dict_get(items[k], search_str.k_title, search_str.no_title)
                \o search_str.snippet \o dict_get(items[k], search_str.k_content, search_str.no_snippet)
                \o search_str.url \o dict_get(items[k], search_str.k_url, search_str.no_url)]
    IN  IF ~SEARXNG_URL
        THEN [requests |-> <<>>, result |-> Returns(search_str.not_configured)]
        ELSE IF ~checked.is_safe
        THEN [requests |-> checked.requests, result |-> Returns(search_str.blocked)]
        ELSE [requests |-> Append(checked.requests, search_str.get_search),
              result |->
                 CASE found.kind = "HTTPStatusError" ->
                         Returns(search_str.status_1 \o found.text \o search_str.status_2)
                   [] found.kind = "RequestError" -> Returns(search_str.connect)
                   [] found.kind = "raise" -> Returns(search_str.unexpected)
                   [] OTHER -> IF snippets = <<>> THEN Returns(search_str.no_results)
                               ELSE Returns(Join(search_str.sep, snippets))]

\* a call of the tool search_searxng: the configuration, what the safety
\* model answers (in time or not), and what SearXNG answers: results, none,
\* an error status, no connection, or something that is not JSON
SearchSearxng ==
    /\ search.pc = "start"
    /\ LET item == <<[k |-> search_str.k_title, v |-> search_str.t1],
                     [k |-> search_str.k_content, v |-> search_str.c1],
                     [k |-> search_str.k_url, v |-> search_str.u1]>>
           answers == {Returns(search_str.answer_safe), Returns(search_str.answer_unsafe),
                       Returns(search_str.answer_both), Returns(search_str.answer_other),
                       Returns(<<>>), Raises(S_timeout)}
           founds == {Returns(<<>>), Returns(<<item>>), Returns(<<item, <<>>>>),
                      Returns(<<item, item, item, item, <<>>>>),
                      [kind |-> "HTTPStatusError", text |-> search_str.status_500],
                      [kind |-> "RequestError", text |-> S_timeout],
                      Raises(S_timeout)}
       IN  \E SEARXNG_URL \in BOOLEAN, OLLAMA_BASE_URL \in BOOLEAN,
              answer \in answers, found \in founds :
              search' = [pc |-> "done",
                         SEARXNG_URL |-> SEARXNG_URL,
                         OLLAMA_BASE_URL |-> OLLAMA_BASE_URL,
                         answer |-> answer,
                         requests |-> search_searxng(SEARXNG_URL, OLLAMA_BASE_URL,
                                                     answer, found).requests,
                         result |-> search_searxng(SEARXNG_URL, OLLAMA_BASE_URL,
                                                   answer, found).result]
    /\ UNCHANGED <<pc, messages, classification, retry_count, errors, user_id,
                   identify_output, llm_input, agent_calls, failed_repairs,
                   error_rounds, invoked, sse, GLOBAL_TOOLS, EXIT_STACK, ask,
                   other, active, mcp>>

AppNext == AskStart \/ AskInvoke \/ AskSave \/ SearchSearxng

\* the application's service and its search tool, each called once
AppSpec == Init /\ [][AppNext]_vars

----------------------------------------------------------------------------
(* Calls of get_mcp_tools in flight at the same time, mcp_client.py:14-90: *)
(* the steps of several requests call it, and a call gives way to the      *)
(* others at each await                                                    *)

\* get_mcp_tools, lines 86-90, up to the call of initialize_mcp_client
GetMcpTools(c) ==
    /\ mcp.pc[c] = "start"
    /\ mcp' = [mcp EXCEPT !.pc[c] = IF GLOBAL_TOOLS = {} THEN "initialize" ELSE "returned"]
    /\ UNCHANGED <<pc, messages, classification, retry_count, errors, user_id,
                   identify_output, llm_input, agent_calls, failed_repairs,
                   error_rounds, invoked, sse, GLOBAL_TOOLS, EXIT_STACK, ask,
                   search, other, active>>

\* initialize_mcp_client, lines 20-69: the test of _EXIT_STACK, the reading
\* of the configuration, up to the first await
InitializeEnter(c) ==
    /\ mcp.pc[c] = "initialize"
    /\ mcp' = [mcp EXCEPT !.pc[c] = IF EXIT_STACK # "None" THEN "returned" ELSE "opening"]
    /\ UNCHANGED <<pc, messages, classification, retry_count, errors, user_id,
                   identify_output, llm_input, agent_calls, failed_repairs,
                   error_rounds, invoked, sse, GLOBAL_TOOLS, EXIT_STACK, ask,
                   search, other, active>>

\* initialize_mcp_client, lines 69-79: the sessions are open and the tools
\* loaded, and the globals are assigned; or a server does not answer, the
\* sessions of this call are closed and the exception is raised again
InitializeOpen(c) ==
    /\ mcp.pc[c] = "opening"
    /\ \/ /\ mcp' = [mcp EXCEPT !.pc[c] = "returned", !.opened = @ + 1,
                                !.assigned = @ + 1]
          /\ GLOBAL_TOOLS' = initialize_mcp_client("None", GLOBAL_TOOLS).GLOBAL_TOOLS
          /\ EXIT_STACK' = initialize_mcp_client("None", GLOBAL_TOOLS).EXIT_STACK
       \/ /\ mcp' = [mcp EXCEPT !.pc[c] = "raised"]
          /\ UNCHANGED <<GLOBAL_TOOLS, EXIT_STACK>>
    /\ UNCHANGED <<pc, messages, classification, retry_count, errors, user_id,
                   identify_output, llm_input, agent_calls, failed_repairs,
                   error_rounds, invoked, sse, ask, search, other, active>>

McpNext ==
    \E c \in 1..MaxCallers : GetMcpTools(c) \/ InitializeEnter(c) \/ InitializeOpen(c)

\* calls of get_mcp_tools in flight at the same time
McpSpec == Init /\ [][McpNext]_vars

----------------------------------------------------------------------------
(* Properties of the graph *)

\* the messages the step appended
Added == SubSeq(messages', Len(messages) + 1, Len(messages'))

\* the results of failed invocations among msgs
Failures(msgs) == SelectSeq(msgs, LAMBDA m : m.type = "tool" /\ m.status = "error")

\* msgs ends with the result of the terminal action, without an error marker
TerminalSuccess(msgs) ==
    /\ msgs # <<>>
    /\ Last(msgs).type = "tool"
    /\ Last(msgs).name = discord_send_message
    /\ ~Contains(Last(msgs).content, S_Error)

RECURSIVE LastRound(_)
\* the tool results msgs ends with: those of the latest TOOLS round
LastRound(msgs) ==
    IF msgs = <<>> \/ Last(msgs).type # "tool" THEN <<>>
    ELSE Append(LastRound(SubSeq(msgs, 1, Len(msgs) - 1)), Last(msgs))

\* C1: retry_count never exceeds 3, and once a TOOLS round has ended with an
\* error and retry_count = 3, which the third round with an error does, the
\* graph is at END: no further AGENT call is made
C1_RetryCeiling ==
    /\ retry_count <= 3
    /\ (retry_count = 3 /\ errors # <<>>) => pc = END
    /\ error_rounds >= 3 => pc = END

\* three rounds with an error ended the request while a further AGENT call
\* was still within the bound
C1_Witness ==
    /\ pc = END
    /\ error_rounds = 3
    /\ retry_count = 3
    /\ errors # <<>>
    /\ agent_calls < MaxAgentCalls

\* C2: only a TOOLS step changes retry_count; it adds exactly 1 when the round
\* has a failed invocation, however many, and nothing when it has none; no
\* step decreases retry_count
C2_RetryCountFrame ==
    [][/\ pc # "tools" => retry_count' = retry_count
       /\ pc = "tools" =>
             retry_count' = retry_count + (IF Failures(Added) # <<>> THEN 1 ELSE 0)
       /\ retry_count' >= retry_count]_vars

\* one round with two failed invocations was counted once
C2_Witness == retry_count = 1 /\ Len(Failures(messages)) = 2

\* C3: a request takes the cycle AGENT -> REPAIR -> AGENT at most 3 times
C3_FailedRepairsCapped == failed_repairs <= 3

\* a fourth failed repair has sent the request back to AGENT, and retry_count
\* has not moved
C3_Witness == failed_repairs > 3 /\ retry_count = 0 /\ pc = "agent"

\* C4: every step leaves the previous message sequence as a prefix of the new
\* one
C4_MessagesAppendOnly ==
    [][/\ Len(messages) <= Len(messages')
       /\ SubSeq(messages', 1, Len(messages)) = messages]_vars

\* a REPAIR step and later a TOOLS step have appended to the request's message
C4_Witness ==
    \E i, j \in 2..Len(messages) :
        i < j /\ messages[i].type = "human" /\ messages[j].type = "tool"

\* the edges of the graph
Edges ==
    {<<"identify", "simple_model">>, <<"identify", "agent">>,
     <<"simple_model", END>>,
     <<"agent", "tools">>, <<"agent", "repair">>, <<"agent", END>>,
     <<"repair", "tools">>, <<"repair", "agent">>,
     <<"tools", "agent">>, <<"tools", END>>}

Edge(from, to) == <<from, to>> \in Edges

\* C5: the graph starts in CLASSIFY and takes only the transitions CLASSIFY ->
\* {DIRECT, AGENT}, DIRECT -> DONE, AGENT -> {TOOLS, REPAIR, DONE}, REPAIR ->
\* {TOOLS, AGENT}, TOOLS -> {AGENT, DONE}; DONE has no successor
C5_Transitions == pc = "identify" /\ [][Edge(pc, pc')]_vars

\* a request that went through a failed repair and a failed round has ended
C5_Witness == pc = END /\ failed_repairs >= 1 /\ retry_count >= 1

\* C6: an AGENT output with a structured tool call goes to TOOLS, whatever its
\* text holds, and not to REPAIR
C6_StructuredFirst ==
    [][(pc = "agent" /\ Last(messages').tool_calls # <<>>) => pc' = "tools"]_vars

\* TOOLS is next for an output with a structured tool call whose text holds a
\* tool call written as JSON
C6_Witness ==
    /\ pc = "tools"
    /\ Last(messages).tool_calls # <<>>
    /\ Contains(Last(messages).content, should_continue_str.name_brace)

\* r is a parsed JSON object with a "name" key
NameObject(r) == r.ok /\ r.v.t = "obj" /\ dict_has(r.v.kv, <<"n", "a", "m", "e">>)

\* text holds a brace-delimited JSON object that has a "name" key
HasNameObject(text) ==
    \E i, j \in 1..Len(text) :
        /\ i < j
        /\ text[i] = "{"
        /\ text[j] = "}"
        /\ NameObject(json_loads(SubSeq(text, i, j)))

\* C7: an AGENT output without a structured tool call goes to REPAIR if and
\* only if its text holds a brace-delimited JSON object with a "name" key, and
\* to END in every other case
C7_RepairIffNameObject ==
    [][(pc = "agent" /\ Last(messages').tool_calls = <<>>) =>
          /\ pc' = "repair" <=> HasNameObject(Last(messages').content)
          /\ pc' # "repair" => pc' = END]_vars

\* the request has ended with a tool call written as JSON as its final answer
C7_Witness ==
    /\ pc = END
    /\ Last(messages).type = "ai"
    /\ HasNameObject(Last(messages).content)

\* C8: a TOOLS round whose last result is that of discord_send_message
\* without an error marker goes to END, whatever errors and retry_count are
C8_TerminalSuccessFirst ==
    [][(pc = "tools" /\ TerminalSuccess(messages')) => pc' = END]_vars

\* a round ended the request on a sent message although another invocation of
\* the round had failed
C8_Witness == pc = END /\ TerminalSuccess(messages) /\ errors # <<>>

\* C9: a TOOLS round without terminal success goes to AGENT when it has a
\* failed invocation and retry_count is then below 3, and when it has no
\* failed invocation; the AGENT call after a round with a failed invocation
\* gets the messages and one more message that carries the last element of
\* errors, the round's last error; the AGENT call after a round without one
\* gets the messages alone
C9_CorrectiveContext ==
    [][/\ (pc = "tools" /\ ~TerminalSuccess(messages')) =>
             /\ (Failures(Added) # <<>> /\ retry_count' < 3) => pc' = "agent"
             /\ Failures(Added) = <<>> => pc' = "agent"
       /\ (pc = "agent" /\ Last(messages).type = "tool") =>
             /\ llm_input'[1].type = "system"
             /\ SubSeq(llm_input', 2, Len(messages) + 1) = messages
             /\ IF Failures(LastRound(messages)) # <<>>
                THEN /\ Len(llm_input') = Len(messages) + 2
                     /\ Last(llm_input').type = "human"
                     /\ Last(errors) = Last(Failures(LastRound(messages))).content
                     /\ Contains(Last(llm_input').content, Last(errors))
                ELSE Len(llm_input') = Len(messages) + 1]_vars

\* the AGENT call after a round with two failed invocations got a corrective
\* message after the round's results
C9_Witness ==
    /\ Len(llm_input) >= 3
    /\ Last(llm_input).type = "human"
    /\ llm_input[Len(llm_input) - 1].type = "tool"
    /\ Len(errors) = 2

\* C10 as stated: after every step the previous errors sequence is a prefix of
\* the new one
C10_ErrorsAccumulate ==
    [][/\ Len(errors) <= Len(errors')
       /\ SubSeq(errors', 1, Len(errors)) = errors]_vars

\* C10: errors holds the error strings of the latest TOOLS round or failed
\* repair only: a TOOLS step replaces it by the errors of its round, none
\* when no invocation failed; a REPAIR step without a valid invocation
\* replaces it by its own errors; a REPAIR step with a valid invocation and
\* the CLASSIFY, DIRECT and AGENT steps leave it unchanged
C10_ErrorsOfLatestStep ==
    [][/\ pc \in {"identify", "simple_model", "agent"} => errors' = errors
       /\ pc = "tools" =>
             errors' = [k \in 1..Len(Failures(Added)) |-> Failures(Added)[k].content]
       /\ (pc = "repair" /\ pc' = "tools") => errors' = errors
       /\ (pc = "repair" /\ pc' = "agent") =>
             /\ errors' # <<>>
             /\ Len(Added) = 1
             /\ Added[1].type = "human"
             /\ \/ errors' = <<repair_str.failed_to_parse>> /\ Added[1].content = repair_str.wrote_text
                \/ Added[1].content = repair_str.system_error \o Join(repair_str.semicolon, errors')]_vars

\* a round without a failed invocation has emptied errors after a round
\* with one
C10_Witness == errors = <<>> /\ retry_count >= 1 /\ Last(messages).type = "tool"

----------------------------------------------------------------------------
(* Properties of the executor *)

\* the step is one of the node tools
ToolsStep == pc = "tools" /\ pc' # "tools"

\* the invocations of the structured tool-call turn a TOOLS step works on
Calls == Last(messages).tool_calls

\* those of them whose name is registered when the step runs
Registered(calls) == SelectSeq(calls, LAMBDA c : c.name \in GLOBAL_TOOLS)

\* every invocation of every tool-call turn in msgs has a result after it
AllAnswered(msgs) ==
    \A j \in 1..Len(msgs) : \A k \in 1..Len(msgs[j].tool_calls) :
        \E m \in (j + 1)..Len(msgs) :
            msgs[m].type = "tool" /\ msgs[m].tool_call_id = msgs[j].tool_calls[k].id

\* C11: a TOOLS step calls ainvoke once for each invocation whose name is
\* registered, in their order, on the registered tool of that name and with
\* the arguments of the invocation, and calls nothing else; no other step
\* calls a tool; and when AGENT is next, every invocation made so far has its
\* result in messages
C11_InvokesRegistryTool ==
    [][/\ ToolsStep =>
             /\ Len(invoked') = Len(Registered(Calls))
             /\ \A k \in 1..Len(Registered(Calls)) :
                    /\ invoked'[k].tool = Registered(Calls)[k].name
                    /\ invoked'[k].tool \in GLOBAL_TOOLS
                    /\ invoked'[k].args = Registered(Calls)[k].args
       /\ ~ToolsStep => invoked' = invoked
       /\ pc' = "agent" => AllAnswered(messages')]_vars

\* of a round of two invocations, the first with a name that is not
\* registered, the second was called with its arguments, and AGENT is next
C11_Witness ==
    /\ pc = "agent"
    /\ invoked = <<[tool |-> discord_send_message, args |-> Args_send]>>
    /\ Len(LastRound(messages)) = 2
    /\ AllAnswered(messages)

\* C12: for an invocation whose name is not registered when the TOOLS step
\* runs, the step does not raise, calls no tool, appends a result with status
\* error for the invocation's identifier, and has the result's text among the
\* errors of the round, which counts as a retry
C12_UnregisteredIsReported ==
    [][ToolsStep =>
          \A k \in 1..Len(Calls) : Calls[k].name \notin GLOBAL_TOOLS =>
              /\ pc' \in {"agent", END}
              /\ \A n \in 1..Len(invoked') : invoked'[n].tool # Calls[k].name
              /\ Len(invoked') < Len(Calls)
              /\ Len(Added) = Len(Calls)
              /\ Added[k].type = "tool"
              /\ Added[k].status = "error"
              /\ Added[k].tool_call_id = Calls[k].id
              /\ \E e \in 1..Len(errors') : errors'[e] = Added[k].content
              /\ retry_count' = retry_count + 1]_vars

\* an invocation the repair unit made for a registered name was not registered
\* any more when the executor got it: no tool was called, the result is an
\* error
C12_Witness ==
    /\ pc = "agent"
    /\ Last(messages).type = "tool"
    /\ Last(messages).tool_call_id[1] = "repair"
    /\ Last(messages).status = "error"
    /\ Contains(Last(messages).content, call_tools_str.not_exist)
    /\ invoked = <<>>
    /\ retry_count = 1

\* C13: a TOOLS step over n invocations appends n results, the i-th a tool
\* result with the identifier and the name of the i-th invocation; every
\* registered invocation is called, those after a failed one too
C13_OneResultPerInvocation ==
    [][ToolsStep =>
          /\ Len(Added) = Len(Calls)
          /\ \A i \in 1..Len(Calls) :
                 /\ Added[i].type = "tool"
                 /\ Added[i].tool_call_id = Calls[i].id
                 /\ Added[i].name = Calls[i].name
                 /\ Calls[i].name \in GLOBAL_TOOLS =>
                        \E n \in 1..Len(invoked') : invoked'[n].tool = Calls[i].name]_vars

\* a round whose first invocation failed and whose second succeeded
C13_Witness ==
    /\ Len(LastRound(messages)) = 2
    /\ LastRound(messages)[1].status = "error"
    /\ LastRound(messages)[2].status = "success"
    /\ Len(invoked) = 1

----------------------------------------------------------------------------
(* Properties of the repair unit *)

\* the step is one of the node repair
RepairStep == pc = "repair" /\ pc' # "repair"

\* the text the REPAIR step reads, and the candidates it extracts from it
RepairInput == Last(messages).content
Candidates == extract_json_from_text(RepairInput)

\* the invocations of the tool-call turn the step appended, if it appended one
NewCalls == IF Added = <<>> THEN <<>> ELSE Added[1].tool_calls

\* the texts of Scenario A and of Scenario B
ScenarioA ==
    Json.sure \o tool_call_text(Json.n_web_search, Json.arguments, Json.a_france)
              \o Json.done
ScenarioB == tool_call_text(Json.n_send, Json.parameters, Json.a_general)

\* v looks like an unresolved placeholder: a str that contains "<", or that
\* is not numeric and contains "id" or "general"
LooksLikePlaceholder(v) ==
    /\ v.t = "str"
    /\ \/ Contains(v.s, <<"<">>)
       \/ /\ ~isdigit(v.s)
          /\ Contains(v.s, <<"i", "d">>) \/ Contains(v.s, <<"g", "e", "n", "e", "r", "a", "l">>)

\* args is a mapping with a value that looks like a placeholder
HasPlaceholderValue(args) ==
    args.t = "obj" /\ \E n \in 1..Len(args.kv) : LooksLikePlaceholder(args.kv[n].v)

\* the argument container of a JSON object written as a tool call: the value
\* of "arguments", else of "parameters", else no arguments
Container(obj) ==
    IF dict_has(obj.kv, <<"a", "r", "g", "u", "m", "e", "n", "t", "s">>)
    THEN dict_get(obj.kv, <<"a", "r", "g", "u", "m", "e", "n", "t", "s">>, JObj(<<>>))
    ELSE dict_get(obj.kv, <<"p", "a", "r", "a", "m", "e", "t", "e", "r", "s">>, JObj(<<>>))

\* r is a parsed JSON object with a "name" key whose name is registered and
\* whose arguments are a mapping of concrete values
ConcreteCall(r) ==
    /\ NameObject(r)
    /\ dict_get(r.v.kv, <<"n", "a", "m", "e">>, PyNone).t = "str"
    /\ dict_get(r.v.kv, <<"n", "a", "m", "e">>, PyNone).s \in GLOBAL_TOOLS
    /\ Container(r.v).t = "obj"
    /\ ~HasPlaceholderValue(Container(r.v))

\* C14: when the text holds a brace-delimited JSON object with a "name" key,
\* a registered name and concrete arguments, the REPAIR step appends a
\* tool-call turn with an invocation of that name and with the arguments of
\* the object's container, and TOOLS is next; for the text of Scenario A the
\* turn holds web_search with {query: "capital of France"} and nothing else
C14_ConvertsConcreteCalls ==
    [][RepairStep =>
          /\ \A i, j \in 1..Len(RepairInput) :
                 (/\ i < j
                  /\ RepairInput[i] = "{"
                  /\ RepairInput[j] = "}"
                  /\ ConcreteCall(json_loads(SubSeq(RepairInput, i, j)))) =>
                     /\ pc' = "tools"
                     /\ \E k \in 1..Len(NewCalls) :
                            /\ NewCalls[k].name =
                                  dict_get(json_loads(SubSeq(RepairInput, i, j)).v.kv,
                                           <<"n", "a", "m", "e">>, PyNone).s
                            /\ NewCalls[k].args =
                                  Container(json_loads(SubSeq(RepairInput, i, j)).v)
          /\ RepairInput = ScenarioA =>
                 /\ Len(NewCalls) = 1
                 /\ NewCalls[1].name = web_search
                 /\ NewCalls[1].args = json_loads(Json.a_france).v]_vars

\* the repair of a tool call written with a space before the colon of "name"
\* found nothing to parse, and AGENT is next
C14_Witness ==
    /\ pc = "agent"
    /\ Len(messages) = 3
    /\ messages[2].content = Json.spaced_colon
    /\ errors = <<repair_str.failed_to_parse>>
    /\ web_search \in GLOBAL_TOOLS

\* the name of a candidate is no registered tool (and can be looked up in
\* the set of names)
UnknownName(data) ==
    LET name == dict_get(data.kv, <<"n", "a", "m", "e">>, PyNone)
    IN  /\ name.t \notin {"obj", "arr"}
        /\ ~(name.t = "str" /\ name.s \in GLOBAL_TOOLS)

C16_PlaceholdersRejected ==
    [][RepairStep =>
          \A i \in 1..Len(Candidates) :
              HasPlaceholderValue(dict_get(Candidates[i].kv,
                                           <<"p", "a", "r", "a", "m", "e", "t", "e", "r", "s">>,
                                           JObj(<<>>))) =>
                  /\ pc' # EXC
                  /\ \A k \in 1..Len(NewCalls) : NewCalls[k].id[2] # i - 1]_vars

\* TOOLS is next with an invocation the repair unit made whose argument value
\* looks like a placeholder
C16_Witness ==
    /\ pc = "tools"
    /\ Last(messages).tool_calls # <<>>
    /\ Last(messages).tool_calls[1].id[1] = "repair"
    /\ HasPlaceholderValue(Last(messages).tool_calls[1].args)

\* C17: for the text of Scenario B the REPAIR step appends no invocation,
\* AGENT is next, and the error it records names discord_list_channels
C17_ScenarioBNamesListChannels ==
    [][(RepairStep /\ RepairInput = ScenarioB) =>
          /\ pc' = "agent"
          /\ NewCalls = <<>>
          /\ errors' # <<>>
          /\ Contains(Last(errors'), discord_list_channels)]_vars

\* the text of Scenario B was rejected as a placeholder, AGENT is next, and
\* the error names discord_get_server_info and not discord_list_channels
C17_Witness ==
    /\ pc = "agent"
    /\ Len(messages) = 3
    /\ messages[2].content = ScenarioB
    /\ messages[3].type = "human"
    /\ Len(errors) = 1
    /\ Contains(errors[1], <<"p", "l", "a", "c", "e", "h", "o", "l", "d", "e", "r">>)
    /\ Contains(errors[1], discord_get_server_info)
    /\ ~Contains(errors[1], discord_list_channels)

\* C18: a REPAIR step ends in one of two ways: errors is not empty, the step
\* appended one corrective human message and no invocation, and AGENT is
\* next; or the step appended one tool-call turn with at least one
\* invocation, and TOOLS is next
C18_TwoOutcomes ==
    [][RepairStep =>
          \/ /\ pc' = "agent"
             /\ errors' # <<>>
             /\ Len(Added) = 1
             /\ Added[1].type = "human"
             /\ Added[1].tool_calls = <<>>
          \/ /\ pc' = "tools"
             /\ Len(Added) = 1
             /\ Added[1].type = "ai"
             /\ Added[1].tool_calls # <<>>]_vars

\* the REPAIR step on a candidate whose name is a JSON object ended with an
\* exception: nothing was appended and no error was recorded
C18_Witness ==
    /\ pc = EXC
    /\ classification = "COMPLEX"
    /\ Last(messages).type = "ai"
    /\ Last(messages).content =
          tool_call_text(Json.n_object, Json.arguments, Json.a_france)
    /\ errors = <<>>

\* C19: the REPAIR step never raises
C19_RepairNeverRaises == [][RepairStep => pc' # EXC]_vars

\* the REPAIR step on a candidate whose "parameters" value is the str
\* "general" ended with an exception
C19_Witness ==
    /\ pc = EXC
    /\ classification = "COMPLEX"
    /\ Last(messages).content =
          tool_call_text(Json.n_web_search, Json.parameters, Json.a_str)
    /\ web_search \in GLOBAL_TOOLS

\* no part of text from a "{" to a "}" is JSON: the braces never close, or
\* what they hold does not parse
NoJSONObject(text) ==
    \A i, j \in 1..Len(text) :
        (i < j /\ text[i] = "{" /\ text[j] = "}") => ~json_loads(SubSeq(text, i, j)).ok

----------------------------------------------------------------------------
(* Properties of a request as a whole *)

\* m is a structured tool-call turn that repair_hallucination produced
IsRepairedTurn(m) ==
    /\ m.type = "ai"
    /\ m.tool_calls # <<>>
    /\ m.tool_calls[1].id[1] = "repair"

\* C21: no structured tool-call turn is routed to REPAIR, and the Repair Unit
\* run again on a turn it has produced extracts no candidate from it and
\* returns an update without a tool call: no invocation is added twice
C21_RepairIsIdempotent ==
    /\ pc = "repair" => Last(messages).tool_calls = <<>>
    /\ \A k \in 1..Len(messages) :
          IsRepairedTurn(messages[k]) =>
              /\ extract_json_from_text(messages[k].content) = <<>>
              /\ \E r \in {repair_hallucination(
                              [state EXCEPT !.messages = SubSeq(messages, 1, k)])} :
                    /\ ~r.raised
                    /\ \A j \in 1..Len(r.update.messages) :
                          r.update.messages[j].tool_calls = <<>>

\* TOOLS is next for a turn that the Repair Unit produced
C21_Witness ==
    /\ pc = "tools"
    /\ IsRepairedTurn(Last(messages))
    /\ messages[Len(messages) - 1].tool_calls = <<>>

\* the classifier model's answer holds the refusal "I cannot", in any case
Refuses(output) == Contains(Upper(output.text), identify_str.I_CANNOT)

\* C22: the CLASSIFY step sets classification to SIMPLE or to COMPLEX for
\* every answer of the classifier model, to SIMPLE when the answer holds the
\* refusal, and it changes no other field of the state
C22_ClassifierContract ==
    [][pc = "identify" =>
          /\ classification' \in {"SIMPLE", "COMPLEX"}
          /\ Refuses(identify_output') => classification' = "SIMPLE"
          /\ UNCHANGED <<messages, retry_count, errors, user_id>>]_vars

\* an answer with the refusal and the word COMPLEX was classified SIMPLE
C22_Witness ==
    /\ pc = "simple_model"
    /\ Refuses(identify_output)
    /\ Contains(Upper(identify_output.text), identify_str.COMPLEX)
    /\ classification = "SIMPLE"

\* C23: when the classifier's model call raises, the CLASSIFY step raises
\* and the run ends with the exception: classification is not set, the state
\* is as before, nothing more is yielded to the user, and no step follows
C23_ClassifierFailureEndsRequest ==
    /\ [][(pc = "identify" /\ identify_output'.kind = "raise") =>
             /\ pc' = EXC
             /\ classification' = ""
             /\ UNCHANGED <<messages, retry_count, errors, agent_calls, sse>>]_vars
    /\ [](identify_output.kind = "raise" =>
             /\ pc = EXC
             /\ classification = ""
             /\ Len(messages) = 1
             /\ agent_calls = 0
             /\ sse = <<>>)
    /\ [][pc # EXC]_vars

\* the request ended with the exception of the classifier's model call
C23_Witness ==
    /\ pc = EXC
    /\ identify_output = Raises(S_timeout)
    /\ classification = ""

\* C24: CLASSIFY runs only as the first step of the request, on the initial
\* state, no step leads back to it, and every later step leaves
\* classification as CLASSIFY set it
C24_ClassifiedOnce ==
    /\ [](pc = "identify" =>
             /\ Len(messages) = 1
             /\ classification = ""
             /\ agent_calls = 0
             /\ sse = <<>>)
    /\ [][/\ pc' # "identify"
          /\ pc # "identify" => classification' = classification]_vars

\* a request classified COMPLEX has ended after a failed repair and a failed
\* round of tools
C24_Witness ==
    /\ pc = END
    /\ classification = "COMPLEX"
    /\ failed_repairs >= 1
    /\ error_rounds >= 1

Apologetic(e) ==
    /\ e.type \in {"token", "error"}
    /\ \/ Contains(Lower(e.content), <<"s","o","r","r","y">>)
       \/ Contains(Lower(e.content), <<"a","p","o","l","o","g">>)
       \/ Contains(Lower(e.content), <<"t","r","o","u","b","l","e">>)
       \/ Contains(Lower(e.content), <<"u","n","a","b","l","e">>)

\* the request has ended because retry_count reached the ceiling
RetriesExhausted ==
    /\ pc = END
    /\ errors # <<>>
    /\ retry_count >= MAX_RETRIES
    /\ ~TerminalSuccess(messages)

\* C26: when a request ends because the retries are exhausted, the stream
\* ends with [DONE], and the last thing the user is sent before it is an
\* apologetic failure message
C26_ExhaustionApologises ==
    RetriesExhausted =>
        /\ Len(sse) >= 2
        /\ sse[Len(sse)].type = "done"
        /\ Apologetic(sse[Len(sse) - 1])

\* the retries are exhausted, the stream has ended with [DONE], and nothing
\* in it is an apologetic failure message
C26_Witness ==
    /\ RetriesExhausted
    /\ sse[Len(sse)].type = "done"
    /\ \A k \in 1..Len(sse) : ~Apologetic(sse[k])

\* the state of request i, of two in flight
Request(i) ==
    IF active = i
    THEN [pc |-> pc, messages |-> messages, classification |-> classification,
          retry_count |-> retry_count, errors |-> errors, user_id |-> user_id,
          identify_output |-> identify_output, llm_input |-> llm_input,
          agent_calls |-> agent_calls, failed_repairs |-> failed_repairs,
          error_rounds |-> error_rounds, invoked |-> invoked, sse |-> sse]
    ELSE other

\* C27: each of two requests in flight has one node to run next or is over;
\* a step changes the state of one request only, the one whose node runs, and
\* leaves messages, errors and retry_count of the other as they are; and an
\* AGENT step gives the model the messages as the step before it left them
C27_OneStepAtATime ==
    /\ [](\A i \in {1, 2} :
             Request(i).pc \in {"identify", "simple_model", "agent", "repair", "tools", END})
    /\ [][\A i \in {1, 2} :
             Request(i)' # Request(i) =>
                 /\ active = i
                 /\ active' = i
                 /\ Request(3 - i)' = Request(3 - i)
                 /\ Request(i).pc \notin {END, EXC}]_vars
    /\ [][(active' = active /\ pc = "agent") =>
             llm_input' = call_model_input(state)]_vars

\* the second request has ended without an error while the first, whose
\* round of tools failed, waits for its next AGENT step
C27_Witness ==
    /\ Request(1).pc = "agent"
    /\ Request(1).retry_count = 1
    /\ Request(1).errors # <<>>
    /\ Request(2).pc = END
    /\ Request(2).classification = "COMPLEX"
    /\ Request(2).retry_count = 0
    /\ Request(2).errors = <<>>
    /\ Len(Request(2).messages) = 2
    /\ Len(Request(1).messages) = 4

\* C28: an AGENT, REPAIR or TOOLS step leaves _GLOBAL_TOOLS and _EXIT_STACK
\* as they are
C28_RegistryUnchangedByRequests ==
    [][(pc \in {"agent", "repair", "tools"}) =>
          /\ GLOBAL_TOOLS' = GLOBAL_TOOLS
          /\ EXIT_STACK' = EXIT_STACK]_vars

\* after a startup that failed, the first AGENT step of a request is next:
\* no tools are loaded and there is no session stack
C28_Witness ==
    /\ pc = "agent"
    /\ agent_calls = 0
    /\ GLOBAL_TOOLS = {}
    /\ EXIT_STACK = "None"

----------------------------------------------------------------------------
(* Properties of the application's service and of its search tool *)

\* C29: when the store raises while the chat log is saved, ask_question logs
\* the error, saves nothing, and returns the response text of the agent
C29_SaveFailureIsLogged ==
    [][(ask.pc = "save" /\ ask' # ask /\ ask'.chats = ask.chats) =>
          /\ ask'.pc = "done"
          /\ ask'.result = Returns(ask.response_text)
          /\ ask'.log_errors = ask.log_errors + 1
          /\ ask'.invocations = ask.invocations]_vars

\* ask_question returned the agent's answer after a failed attempt and a
\* failed save: two errors are logged and the store holds no chat
C29_Witness ==
    /\ ask.pc = "done"
    /\ ask.result = Returns(ask_question_str.answer)
    /\ ask.chats = <<>>
    /\ ask.log_errors = 2
    /\ ask.invocations = 2

\* C30: when SearXNG is configured and the safety check says that the query
\* is not safe, search_searxng sends no request to SearXNG and returns the
\* advice not to search for the topic again
C30_BlockedQueryIsNotSearched ==
    [][(/\ search.pc = "start"
        /\ search'.pc = "done"
        /\ search'.SEARXNG_URL
        /\ ~search_check_safety(search'.OLLAMA_BASE_URL, search'.answer).is_safe) =>
          /\ \A k \in 1..Len(search'.requests) : search'.requests[k] # search_str.get_search
          /\ search'.result.kind = "return"
          /\ search'.result.text = search_str.blocked
          /\ Contains(search'.result.text,
                      <<"D","o"," ","N","O","T"," ","a","t","t","e","m","p","t"," ","t","o"," ","s","e","a","r","c","h">>)
          /\ Contains(search'.result.text,
                      <<"i","n","t","e","r","n","a","l"," ","k","n","o","w","l","e","d","g","e">>)]_vars

\* the safety model answered UNSAFE: the only request is the one to the
\* safety model, and the tool returned the advice
C30_Witness ==
    /\ search.pc = "done"
    /\ search.SEARXNG_URL
    /\ search.OLLAMA_BASE_URL
    /\ search.answer = Returns(search_str.answer_unsafe)
    /\ search.requests = <<search_str.post_generate>>
    /\ search.result = Returns(search_str.blocked)

----------------------------------------------------------------------------
(* Properties of extract_json_from_text, on the texts the REPAIR step reads *)

RECURSIVE ScanStates(_, _)
\* the loop variables of the outer while loop at the start of every round,
\* from st on, and when the loop has stopped
ScanStates(text, st) ==
    IF st.done \/ ~(st.cursor < Len(text))
    THEN <<st>>
    ELSE <<st>> \o ScanStates(text, scan_step(text, st))

\* the rounds of the outer loop on text
ScanOf(text) == ScanStates(text, [cursor |-> 0, results |-> <<>>, done |-> FALSE])

\* the places (0-based) of the braces the outer loop takes as the start of a
\* candidate
CandidateStarts(text) ==
    LET sc == ScanOf(text)
    IN  {find(text, "{", sc[k].cursor) : k \in 1..Len(sc)} \ {-1}

RECURSIVE MatchAfter(_, _, _)
\* the loop variables of the inner while loop after n rounds, for the
\* candidate that starts at start
MatchAfter(text, start, n) ==
    IF n = 0
    THEN [end |-> start + 1, count |-> 1, in_string |-> FALSE, escape |-> FALSE]
    ELSE LET st == MatchAfter(text, start, n - 1)
         IN  IF st.end < Len(text) /\ st.count > 0 THEN match_step(text, st) ELSE st

\* C31: while the closing brace of a candidate is looked for, a "{" or "}"
\* that is inside a double-quoted string, or that immediately follows a
\* backslash (inside or outside a string), leaves the nesting counter as it is
C31_QuotedAndEscapedBracesIgnored ==
    pc = "repair" =>
       \A start \in CandidateStarts(RepairInput) :
          \A n \in 0..Len(RepairInput) :
             LET st == MatchAfter(RepairInput, start, n)
             IN  (/\ st.end < Len(RepairInput)
                  /\ st.count > 0
                  /\ RepairInput[st.end + 1] \in {"{", "}"}
                  /\ \/ st.in_string
                     \/ st.escape /\ RepairInput[st.end] = "\\") =>
                     match_step(RepairInput, st).count = st.count

\* the REPAIR step reads a text whose first candidate holds an escaped "}"
\* outside a string
C31_Witness ==
    /\ pc = "repair"
    /\ RepairInput = Json.escaped
    /\ 0 \in CandidateStarts(RepairInput)
    /\ MatchAfter(RepairInput, 0, 1).escape
    /\ ~MatchAfter(RepairInput, 0, 1).in_string

\* data is what extract_json_from_text makes of a part of text that goes from
\* a "{" to a "}" and parses as a JSON object
ParsedPart(text, data) ==
    \E i, j \in 1..Len(text) :
        /\ i < j
        /\ text[i] = "{"
        /\ text[j] = "}"
        /\ json_loads(SubSeq(text, i, j)).ok
        /\ json_loads(SubSeq(text, i, j)).v.t = "obj"
        /\ data = rename_arguments(json_loads(SubSeq(text, i, j)).v)

\* C32: every candidate that extract_json_from_text returns is a part of the
\* text from a "{" to a "}" that parses as a JSON object, and the object has
\* a "name" key of its own; an object that has "name" only in a nested object
\* or in a string is not returned
C32_CandidatesHaveOwnName ==
    pc = "repair" =>
       \A k \in 1..Len(Candidates) :
          /\ ParsedPart(RepairInput, Candidates[k])
          /\ dict_has(Candidates[k].kv, <<"n", "a", "m", "e">>)

\* the REPAIR step reads a text whose outer object has "name" only in a
\* nested object, and the outer object is the candidate
C32_Witness ==
    /\ pc = "repair"
    /\ RepairInput = Json.nested
    /\ Len(Candidates) = 1
    /\ dict_has(Candidates[1].kv, <<"t", "o", "o", "l">>)

\* the candidate that a round of the outer loop on text looks at, for the
\* loop variables st at the start of the round: its start, and the loop
\* variables of the inner loop when it stops
RoundStart(text, st) == find(text, "{", st.cursor)
RoundMatch(text, st) == match_braces(text, RoundStart(text, st) + 1, 1, FALSE, FALSE)

\* the round meets a malformed candidate: a "{" that no "}" closes, or a
\* balanced part that is not JSON
Malformed(text, st) ==
    /\ RoundStart(text, st) # -1
    /\ LET m == RoundMatch(text, st)
       IN  \/ m.count # 0
           \/ ~json_loads(SubSeq(text, RoundStart(text, st) + 1, m.end)).ok

\* where the scan goes on after the malformed candidate of the round
PastFailure(text, st) ==
    LET m == RoundMatch(text, st)
    IN  IF m.count # 0 THEN RoundStart(text, st) + 1 ELSE m.end

\* C33: a malformed candidate is skipped (the failure of json.loads is caught,
\* no exception leaves the function) and does not end the scan: the results so
\* far are kept, the scan goes on past the point of failure, and what it
\* extracts from there on is what it extracts from the rest of the text taken
\* on its own, so every tool call that starts after the candidate is extracted
C33_MalformedIsSkipped ==
    [][RepairStep =>
          LET sc == ScanOf(RepairInput)
          IN  \A k \in 1..(Len(sc) - 1) :
                 Malformed(RepairInput, sc[k]) =>
                    /\ ~sc[k + 1].done
                    /\ sc[k + 1].results = sc[k].results
                    /\ sc[k + 1].cursor = PastFailure(RepairInput, sc[k])
                    /\ sc[k + 1].cursor > RoundStart(RepairInput, sc[k])
                    /\ Candidates =
                          sc[k].results \o
                          extract_json_from_text(
                             SubSeq(RepairInput, PastFailure(RepairInput, sc[k]) + 1,
                                    Len(RepairInput)))]_vars

\* a REPAIR step has read a text whose first candidate is malformed (a brace
\* that never closes, or braces that hold no JSON) and has made an invocation
\* of the tool call that follows it
C33_Witness ==
    /\ pc = "tools"
    /\ Len(messages) = 3
    /\ messages[2].content \in {Json.skip_unbalanced, Json.skip_not_json}
    /\ Malformed(messages[2].content, ScanOf(messages[2].content)[1])
    /\ Len(messages[3].tool_calls) = 1
    /\ messages[3].tool_calls[1].name = web_search

----------------------------------------------------------------------------
(* Further properties of the repair unit and of the graph *)

\* C34: every tool-call turn that a REPAIR step appends holds at least one
\* invocation; whenever TOOLS is next the last message is an assistant turn
\* with at least one invocation, and no TOOLS step records the error "Invalid
\* message routed to tools"
C34_ToolsGetsInvocations ==
    [][/\ (RepairStep /\ Added # <<>> /\ Added[1].type = "ai") =>
              Added[1].tool_calls # <<>>
       /\ pc' = "tools" =>
              /\ Last(messages').type = "ai"
              /\ Last(messages').tool_calls # <<>>
       /\ ToolsStep =>
              /\ Added # <<>>
              /\ \A k \in 1..Len(errors') :
                    errors'[k] # call_tools_str.invalid_routed]_vars

\* a TOOLS step has run the one invocation of a turn that a REPAIR step made
\* of the text of Scenario A
C34_Witness ==
    /\ pc \in {"agent", END}
    /\ Len(messages) = 4
    /\ messages[2].content = ScenarioA
    /\ IsRepairedTurn(messages[3])
    /\ Len(messages[3].tool_calls) = 1
    /\ messages[4].type = "tool"

C36_RejectedErrorsDropped ==
    [][(RepairStep /\ NewCalls # <<>>) =>
          /\ errors' = errors
          /\ retry_count' = retry_count
          /\ Len(Added) = 1
          /\ Added[1].type = "ai"
          /\ Len(NewCalls) <= Len(Candidates)]_vars

\* a REPAIR step has rejected the first of two candidates (a tool that does
\* not exist) and made an invocation of the second; no error is recorded
C36_Witness ==
    /\ pc = "tools"
    /\ Len(messages) = 3
    /\ messages[2].content = Json.two_objects
    /\ Len(extract_json_from_text(messages[2].content)) = 2
    /\ Len(messages[3].tool_calls) = 1
    /\ messages[3].tool_calls[1].name = web_search
    /\ errors = <<>>
    /\ retry_count = 0

----------------------------------------------------------------------------
(* Properties of the registry under calls in flight at the same time *)

\* C37: however many calls of get_mcp_tools are in flight while the registry
\* is empty, the sessions of the configured servers are opened at most once
\* and _EXIT_STACK and _GLOBAL_TOOLS are assigned at most once
C37_InitializedAtMostOnce ==
    /\ mcp.opened <= 1
    /\ mcp.assigned <= 1

\* after a failed startup two calls have both passed the test of _EXIT_STACK
\* before either assigned it, and both have opened sessions and assigned the
\* globals
C37_Witness ==
    /\ mcp.pc[1] = "returned"
    /\ mcp.pc[2] = "returned"
    /\ mcp.opened = 2
    /\ mcp.assigned = 2
    /\ EXIT_STACK = "stack"
    /\ GLOBAL_TOOLS # {}

----------------------------------------------------------------------------
(* Further properties of the application's service *)

\* C38: ask_question invokes the agent at most 3 times.  An attempt that
\* changes the working messages appends the leaked text and the one corrective
\* message and goes on to the next attempt; a text that is a leaked tool call
\* is never taken for the answer; the answer that is taken is returned and is
\* written to the chat log at most once; and when the fallback text of 3
\* failed attempts is returned no chat log has been written
C38_AtMostThreeInvocations ==
    [][/\ ask'.invocations <= 3
       /\ Len(ask'.chats) <= 1
       /\ (ask.pc = "invoke" /\ ask' # ask) =>
              /\ ask'.invocations = ask.invocations + 1
              /\ ask'.chats = ask.chats
              /\ ask'.current_messages # ask.current_messages =>
                    /\ \E t \in {ask_question_str.leaked, ask_question_str.leaked_function} :
                          ask'.current_messages =
                             ask.current_messages \o
                             <<AIMessage(t, <<>>),
                               HumanMessage(ask_question_str.correction_msg)>>
                    /\ ask'.attempt = ask.attempt + 1
                    /\ IF ask'.attempt < 3
                       THEN ask'.pc = "invoke"
                       ELSE /\ ask'.pc = "done"
                            /\ ask'.result = Returns(ask_question_str.trouble)
              /\ ask'.pc = "save" =>
                    ask'.response_text \notin
                       {ask_question_str.leaked, ask_question_str.leaked_function}
       /\ (ask.pc = "save" /\ ask' # ask) =>
              /\ ask'.pc = "done"
              /\ ask'.result = Returns(ask.response_text)
              /\ Len(ask'.chats) <= Len(ask.chats) + 1
              /\ ask'.invocations = ask.invocations
       /\ (/\ ask'.pc = "done"
           /\ ask'.result \in {Returns(ask_question_str.trouble),
                               Returns(ask_question_str.sorry)}) =>
              /\ ask'.invocations = 3
              /\ ask'.chats = <<>>]_vars

\* three attempts have each ended with a leaked tool call: the working
\* messages hold the question and three leaked texts with their corrective
\* messages, the fallback text is returned and no chat log is written
C38_Witness ==
    /\ ask.pc = "done"
    /\ ask.invocations = 3
    /\ ask.attempt = 3
    /\ Len(ask.current_messages) = 7
    /\ ask.current_messages[6].content = ask_question_str.leaked
    /\ ask.current_messages[7].content = ask_question_str.correction_msg
    /\ ask.result = Returns(ask_question_str.trouble)
    /\ ask.chats = <<>>

----------------------------------------------------------------------------
(* Further properties of a request as a whole *)

\* the places <<k, j>> of the invocations in the messages that a REPAIR step
\* made
RepairedCalls ==
    {p \in (1..Len(messages)) \X (1..2) :
        /\ p[2] <= Len(messages[p[1]].tool_calls)
        /\ messages[p[1]].tool_calls[p[2]].id[1] = "repair"}

\* C39: the ids repair_<index>_<message count> of the invocations that REPAIR
\* steps make are pairwise distinct over the whole request, within a turn and
\* from one turn to another
C39_RepairIdsDistinct ==
    /\ \A k \in 1..Len(messages) : Len(messages[k].tool_calls) <= 2
    /\ \A p, q \in RepairedCalls :
          p # q =>
             repair_id_str(messages[p[1]].tool_calls[p[2]].id) #
             repair_id_str(messages[q[1]].tool_calls[q[2]].id)

\* two REPAIR steps of one request have made invocations: the first turn has
\* two, with the ids repair_0_2 and repair_1_2, and a later turn has another
C39_Witness ==
    /\ Len(messages) >= 7
    /\ Len(messages[3].tool_calls) = 2
    /\ repair_id_str(messages[3].tool_calls[1].id) =
          <<"r", "e", "p", "a", "i", "r", "_", "0", "_", "2">>
    /\ repair_id_str(messages[3].tool_calls[2].id) =
          <<"r", "e", "p", "a", "i", "r", "_", "1", "_", "2">>
    /\ \E p \in RepairedCalls : p[1] > 3

----------------------------------------------------------------------------
(* Termination of extract_json_from_text *)

\* a round of the outer loop on text, with the loop variables st at its
\* start, looks at a balanced candidate
Balanced(text, st) == RoundStart(text, st) # -1 /\ RoundMatch(text, st).count = 0

\* C40: extract_json_from_text terminates: every round of the outer loop
\* moves the cursor forward or is the last, so there are at most as many
\* rounds as characters; every candidate is added by one round, as the part of
\* the text from that round's brace to its closing brace; and no later round
\* starts inside a balanced part, so the candidates come in the order of the
\* text, do not overlap, and a nested object is not scanned again
C40_ScanTerminates ==
    pc = "repair" =>
       LET sc == ScanOf(RepairInput)
           start == [k \in 1..(Len(sc) - 1) |-> RoundStart(RepairInput, sc[k])]
           match == [k \in 1..(Len(sc) - 1) |-> RoundMatch(RepairInput, sc[k])]
       IN  /\ Len(sc) <= Len(RepairInput) + 1
           /\ Last(sc).results = Candidates
           /\ \A k \in 1..(Len(sc) - 1) :
                 /\ sc[k + 1].done \/ sc[k + 1].cursor > sc[k].cursor
                 /\ sc[k + 1].results # sc[k].results =>
                       /\ Balanced(RepairInput, sc[k])
                       /\ sc[k + 1].results =
                             Append(sc[k].results,
                                    rename_arguments(
                                       json_loads(SubSeq(RepairInput, start[k] + 1,
                                                         match[k].end)).v))
                 /\ Balanced(RepairInput, sc[k]) =>
                       \A j \in (k + 1)..(Len(sc) - 1) :
                          start[j] = -1 \/ start[j] >= match[k].end

\* the REPAIR step reads a tool call with a nested object followed by a stray
\* brace: the scan takes the whole call in its first round, does not look at
\* the nested object, and stops after the brace that never closes
C40_Witness ==
    /\ pc = "repair"
    /\ RepairInput =
          tool_call_text(Json.n_web_search, Json.arguments, Json.a_france) \o Json.stray
    /\ Len(Candidates) = 1
    /\ Len(ScanOf(RepairInput)) = 3
    /\ Balanced(RepairInput, ScanOf(RepairInput)[1])
    /\ ~Balanced(RepairInput, ScanOf(RepairInput)[2])

====
